---- MODULE Spec2Model ----
(***************************************************************************)
(* Model of the strong-manager reverse proxy data plane: the routing cache *)
(* and its refresh, weighted backend selection, the filter engine, the     *)
(* per-host rate limiter, the buffered request-log sink with shutdown, and *)
(* the log retention sweeper.                                              *)
(*                                                                         *)
(* Strings that the code inspects character by character (match values,   *)
(* paths, host names, IPs seen by the filter) are sequences of one-char    *)
(* strings.  Times are integers (seconds unless stated otherwise).         *)
(***************************************************************************)
EXTENDS Integers, Sequences, FiniteSets, TLC

VARIABLES
    \* ---- configuration store (SQLite tables) ----
    dns_rules,        \* set of rows [id, hostname, rate_limit_enabled, rate_limit_quota,
                      \*              rate_limit_period, log_retention_days]
    backends,         \* set of rows [id, url, weight, isActive]
    dns_backend_map,  \* set of rows <<dns_rule_id, backend_id>>
    sqlite_sequence,  \* table: the largest AUTOINCREMENT id ever given in dns_rules and backends
    storeFaults,      \* environment: TRUE iff store operations may fail
    \* ---- proxy package ----
    dnsRuleCache,     \* hostname -> sequence of cached backends (domain = cached hosts)
    backendCountMap,  \* url -> selected count (a missing Go map key reads as 0)
    refresh,          \* refresh[r]: the state of the r-th concurrent refreshCache call
    proxy,            \* proxy[p]: the state of the p-th concurrent proxyHandler call
    \* ---- history (not program state) ----
    committedRouting, \* the map installed by the last completed swap (or at start-up)
    cacheClean,       \* no store mutation since the refresh that built dnsRuleCache began
    adminOps,         \* number of admin mutations made so far
    \* ---- filter package ----
    filter_rules,     \* table: set of rows [id, match_type, match_value, action_type,
                      \*        action_value, status_code, is_active, priority]
    nextFilterId,     \* the AUTOINCREMENT id the next inserted filter rule gets
    filterRuleCache,  \* sequence of cached filter rules
    frefresh,         \* the state of the refreshFilterCache call in progress
    filter,           \* filter[q]: the state of the q-th concurrent FilterRequest call
    committedFilter,  \* history: the list installed by the last completed swap
    \* ---- clock ----
    now,              \* the wall clock, in whole seconds
    \* ---- middleware package: rate limiter ----
    dnsConfigMap,     \* hostname -> [Hostname, Enabled, Quota, PeriodSecs, LastUpdated]
    ipMap,            \* client ip -> [count, lastSeen, hostCounts: hostname -> [count, lastSeen]]
    rlCalls,          \* history: number of requests the middleware has handled
    windows,          \* history: the counter windows still running, with the requests
                      \* passed in each
    windowStart,      \* history: <<ip, hostname>> -> the time the per-host counter was
                      \* created or last set back to 1
    rlLast,           \* history: the request the middleware handled in the last step, if
                      \* that step was one, and its outcome
    \* ---- database package: buffered request logger, and main's shutdown ----
    logBuffer,        \* logger.buffer: sequence of entries
    asyncPending,     \* number of `go logger.flush()` goroutines that have not locked yet
    writes,           \* the batches in writeToDatabase: set of [owner, entries, attempt]
    loopPc,           \* position of the goroutine of start()
    stopClosed,       \* logger.stopCh is closed
    dbOpen,           \* database.DB is an open handle
    mainPc,           \* position of main
    submitted,        \* history: number of LogRequest calls (entries are numbered by it)
    signalAt,         \* history: the value of submitted when the signal arrived
    flushKinds,       \* history: the owners of the flushes that wrote a batch
    \* ---- request_logs table ----
    request_logs,     \* set of rows [id, entry, hostname, timestamp]
    nextLogId,        \* the AUTOINCREMENT id the next inserted row gets
    \* ---- retention sweeper ----
    lastSweep,        \* history: the last execution of pruneOldLogs
    \* ---- handlers package: health checker ----
    healthStatus,     \* url -> isHealthy
    hsweep,           \* the state of checkHealthForEnabledDNSRules, with its history
    \* ---- middleware package: the locks of the rate limiter ----
    rlsync,           \* ipMapLock, dnsConfigMapLock and the position of every
                      \* goroutine that takes them
    solo              \* history: for a client and a host, the limiter's map had it
                      \* handled the requests of that client for that host only

storeVars == <<dns_rules, backends, dns_backend_map, sqlite_sequence, storeFaults, adminOps>>
routingVars == <<dnsRuleCache, backendCountMap, refresh, proxy, committedRouting, cacheClean>>
filterVars == <<filter_rules, nextFilterId, filterRuleCache, frefresh, filter, committedFilter>>
configVars == <<dns_rules, backends, dns_backend_map, sqlite_sequence>>
clockVars == <<now>>
limiterVars == <<dnsConfigMap, ipMap, rlCalls, windows, windowStart, rlLast>>
loggerVars == <<logBuffer, asyncPending, writes, loopPc, stopClosed, dbOpen, mainPc, submitted,
                signalAt, flushKinds>>
logStoreVars == <<request_logs, nextLogId>>
backgroundVars == <<lastSweep, healthStatus, hsweep, rlsync>>
sweeperVars == <<backgroundVars, solo>>
\* everything beside the store, the routing cache and the filter engine
serviceVars == <<clockVars, limiterVars, loggerVars, logStoreVars, sweeperVars>>

-----------------------------------------------------------------------------
(* Bounds of the model *)

EmptyMap == [x \in {} |-> x]

\* The largest id of the rows (0 for none).
MaxId(rows) ==
    IF rows = {} THEN 0 ELSE CHOOSE i \in {r.id : r \in rows} : \A r \in rows : r.id <= i

\* sqlite_sequence of a store in which no row was ever deleted.
SequenceOf(rules, bs) == [dns_rules |-> MaxId(rules), backends |-> MaxId(bs)]

NumBackends == 2      \* backends 1..NumBackends exist in the store
MaxWeight == 2        \* weights range over 1..MaxWeight
MaxSelections == 2    \* selections made in the routing specification
LongRun == 4000       \* selections made in the selection specification
NumRefreshers == 1    \* concurrent refreshCache calls
NumHandlers == 1      \* concurrent proxyHandler calls
MaxAdminOps == 2      \* admin mutations made in one behaviour
MaxFilterRules == 2   \* filter rules ever created
MaxPriority == 1      \* filter priorities range over 0..MaxPriority
NumFilterCalls == 1   \* concurrent FilterRequest calls

\* Host names, as the character sequences the filter inspects.
HostA == <<"a", ".", "t">>
HostB == <<"b", ".", "t">>
Hostnames == {HostA, HostB}
\* A host name no rule is configured for.
UnknownHost == <<"c">>
BackendIds == 1..NumBackends
Refreshers == 1..NumRefreshers
Handlers == 1..NumHandlers
FilterCalls == 1..NumFilterCalls

\* The origin URL of backend id (urls are unique per backend).
UrlOf(id) == <<"http://u", id>>
Urls == {UrlOf(id) : id \in BackendIds}

-----------------------------------------------------------------------------
(* Generic helpers *)

RECURSIVE SetToSortedSeq(_)
\* The elements of a finite set of integers in ascending order.
SetToSortedSeq(S) ==
    IF S = {} THEN <<>>
    ELSE LET m == CHOOSE x \in S : \A y \in S : x <= y
         IN <<m>> \o SetToSortedSeq(S \ {m})

Range(s) == {s[i] : i \in 1..Len(s)}

SumOver(f, S) ==
    LET RECURSIVE Sum(_)
        Sum(T) == IF T = {} THEN 0
                  ELSE LET x == CHOOSE x \in T : TRUE IN f[x] + Sum(T \ {x})
    IN Sum(S)

-----------------------------------------------------------------------------
(* proxy: refreshCache *)

\* SELECT d.id, d.hostname FROM dns_rules d  (rows in rowid order)
QueryDNSRulesIn(rules) ==
    LET ids == SetToSortedSeq({d.id : d \in rules})
    IN [i \in 1..Len(ids) |-> CHOOSE d \in rules : d.id = ids[i]]

QueryDNSRules == QueryDNSRulesIn(dns_rules)

\* SELECT b.* FROM backends b JOIN dns_backend_map m ON b.id = m.backend_id
\* WHERE m.dns_rule_id = ruleId  (rows in backend id order), on the tables of st
QueryBackendsIn(st, ruleId) ==
    LET ids == SetToSortedSeq({b.id : b \in {x \in st.backends : <<ruleId, x.id>> \in st.dns_backend_map}})
    IN [i \in 1..Len(ids) |-> CHOOSE b \in st.backends : b.id = ids[i]]

QueryBackendsOf(ruleId) ==
    QueryBackendsIn([backends |-> backends, dns_backend_map |-> dns_backend_map], ruleId)

\* Mutant of CollectBackends: inactive backends are kept.
CollectBackendsAll(rows, badScan) ==
    SelectSeq(rows, LAMBDA b : b.id \notin badScan)
\* The backends row loop of refreshCache: rows whose Scan fails are skipped,
\* inactive backends are dropped.
CollectBackends(rows, badScan) ==
    SelectSeq(rows, LAMBDA b : b.id \notin badScan /\ b.isActive)

\* The cache a refresh builds from the current store when no operation fails.
RECURSIVE BuildFromIn(_, _, _)
BuildFromIn(st, rules, cache) ==
    IF rules = <<>> THEN cache
    ELSE LET bs == CollectBackends(QueryBackendsIn(st, Head(rules).id), {})
         IN BuildFromIn(st, Tail(rules),
                IF Len(bs) > 0
                THEN [h \in DOMAIN cache \cup {Head(rules).hostname} |->
                        IF h = Head(rules).hostname THEN bs ELSE cache[h]]
                ELSE cache)

BuildFrom(rules, cache) ==
    BuildFromIn([backends |-> backends, dns_backend_map |-> dns_backend_map], rules, cache)

EmptyCache == [h \in {} |-> <<>>]

\* The positions of main in which the process no longer runs: after the return
\* of main, and after a panic that no goroutine recovers.
Ended == {"exited", "panicked"}

\* failed, clean: history only (a store operation of this call failed; no store
\* mutation since this call's rule query).
IdleRefresh == [pc |-> "idle", rows |-> <<>>, tempCache |-> EmptyCache, failed |-> FALSE,
                clean |-> TRUE]


\* refreshCache, lines 48-62: the rule query.  On a query error the call returns
\* and the live cache is untouched.
RefreshQuery(r) ==
    /\ mainPc \notin Ended
    /\ dbOpen
    /\ refresh[r].pc = "idle"
    /\ \E ok \in {TRUE} \cup (IF storeFaults THEN {FALSE} ELSE {}) :
         IF ok
         THEN refresh' = [refresh EXCEPT ![r] =
                  [pc |-> "rows", rows |-> QueryDNSRules, tempCache |-> EmptyCache,
                   failed |-> FALSE, clean |-> TRUE]]
         ELSE refresh' = refresh
    /\ UNCHANGED <<filterVars, serviceVars>>
    /\ UNCHANGED <<storeVars, dnsRuleCache, backendCountMap, proxy, committedRouting, cacheClean>>

\* The value tempCache has after one iteration of the rule loop (lines 65-113).
\* outcome: "ok", "scan_error" (rule row Scan failed: continue) or "query_error"
\* (backend query failed: continue); badScan: backend rows whose Scan fails.
TempCacheAfter(temp, rule, outcome, badScan) ==
    LET bs == CollectBackends(QueryBackendsOf(rule.id), badScan)
    IN IF outcome = "ok" /\ Len(bs) > 0
       THEN [h \in DOMAIN temp \cup {rule.hostname} |->
                IF h = rule.hostname THEN bs ELSE temp[h]]
       ELSE temp

\* refreshCache, lines 65-113: one iteration of the rule loop.
RefreshRule(r) ==
    /\ mainPc \notin Ended
    /\ dbOpen
    /\ refresh[r].pc = "rows"
    /\ refresh[r].rows # <<>>
    /\ LET rule == Head(refresh[r].rows) IN
       \E outcome \in {"ok"} \cup (IF storeFaults THEN {"scan_error", "query_error"} ELSE {}),
          badScan \in (IF storeFaults THEN SUBSET BackendIds ELSE {{}}) :
         /\ outcome # "ok" => badScan = {}
         /\ refresh' = [refresh EXCEPT ![r] =
                [@ EXCEPT !.rows = Tail(@),
                          !.tempCache = TempCacheAfter(refresh[r].tempCache, rule, outcome, badScan),
                          !.failed = @ \/ outcome # "ok" \/ badScan # {}]]
    /\ UNCHANGED <<filterVars, serviceVars>>
    /\ UNCHANGED <<storeVars, dnsRuleCache, backendCountMap, proxy, committedRouting, cacheClean>>

\* The selection counters after a refresh.  The comment on line 46 announces a
\* reset, but no statement of refreshCache touches backendCountMap.
CountsAfterRefresh(counts) == counts

\* refreshCache, lines 115-118: the swap under dnsRuleCacheLock.
RefreshSwap(r) ==
    /\ mainPc \notin Ended
    /\ refresh[r].pc = "rows"
    /\ refresh[r].rows = <<>>
    /\ dnsRuleCache' = refresh[r].tempCache
    /\ backendCountMap' = CountsAfterRefresh(backendCountMap)
    /\ committedRouting' = refresh[r].tempCache
    /\ cacheClean' = refresh[r].clean
    /\ refresh' = [refresh EXCEPT ![r] = IdleRefresh]
    /\ UNCHANGED <<filterVars, serviceVars>>
    /\ UNCHANGED <<storeVars, proxy>>

-----------------------------------------------------------------------------
(* proxy: selectBackend *)

MinOfSet(S) == CHOOSE x \in S : \A y \in S : x <= y

\* priority = weight/minWeight - selectedCount, scaled by minWeight (> 0) so that
\* it stays an integer; the order of two priorities is unchanged.  For the
\* weights of this model every ratio is exactly representable in float64.
\* Mutant of ScaledPriority: the selected count is left out.
ScaledPriorityOfWeight(b, counts, minWeight) == b.weight
ScaledPriority(b, counts, minWeight) == b.weight - counts[b.url] * minWeight

RECURSIVE SelectLoop(_, _, _, _, _)
\* Lines 157-174: sel = 0 stands for selectedBackend == nil.
SelectLoop(bs, counts, minWeight, i, sel) ==
    IF i > Len(bs) THEN sel
    ELSE IF sel = 0 \/ ScaledPriority(bs[i], counts, minWeight)
                         > ScaledPriority(bs[sel], counts, minWeight)
         THEN SelectLoop(bs, counts, minWeight, i + 1, i)
         ELSE SelectLoop(bs, counts, minWeight, i + 1, sel)

\* The index in bs of the backend selectBackend returns.
selectBackend(bs, counts) ==
    IF Len(bs) = 1 THEN 1
    ELSE SelectLoop(bs, counts, MinOfSet({bs[i].weight : i \in 1..Len(bs)}), 1, 0)

\* Mutant of CountsAfterSelect: the count of the first candidate is incremented.
CountsAfterSelectFirst(bs, counts) == [counts EXCEPT ![bs[1].url] = @ + 1]
\* Lines 137 and 177: the count of the returned backend is incremented.
CountsAfterSelect(bs, counts) ==
    LET u == bs[selectBackend(bs, counts)].url
    IN [counts EXCEPT ![u] = @ + 1]

-----------------------------------------------------------------------------
(* proxy: proxyHandler *)

\* status: the status code written to the client (0: none yet); logs: the
\* logRequest goroutines the call started, in order.  upstream: how the
\* forwarding ended; selections: history, the selectBackend calls made for the
\* request.  committed: history only,
\* the entry of the last committed map for the host at the moment of the lookup.
NotFound == [found |-> FALSE, backends |-> <<>>]
NoRequest == [remoteAddr |-> <<>>, xff |-> <<>>, xri |-> <<>>, host |-> <<>>, path |-> <<>>]
IdleProxy == [pc |-> "idle", req |-> NoRequest, host |-> <<>>, found |-> FALSE, backends |-> <<>>, selected |-> 0,
              status |-> 0, logs |-> <<>>, upstream |-> "none", selections |-> 0,
              committed |-> NotFound]

\* What the lookup of line 199 returns for host, read from cache.
Lookup(cache, host) ==
    IF host \in DOMAIN cache THEN [found |-> TRUE, backends |-> cache[host]]
    ELSE NotFound

\* The request the proxy listener gets for host from a peer that sends no
\* forwarding headers.
ArrivingRequest(host) ==
    [remoteAddr |-> <<"1", "0", ".", "1", ".", "2", ".", "3", ":", "8">>, xff |-> <<>>, xri |-> <<>>,
     host |-> host, path |-> <<"/", "a", "/", "b">>]

\* proxyHandler, lines 196-205, called with request req: the lookup of r.Host
\* under the read lock; 410 when the host is not cached.
ProxyAccept(p, req) ==
    /\ mainPc \notin Ended
    /\ proxy[p].pc = "idle"
    /\ LET host == req.host
           res == Lookup(dnsRuleCache, host) IN
       proxy' = [proxy EXCEPT ![p] =
           [pc |-> IF ~res.found \/ Len(res.backends) = 0 THEN "gone" ELSE "looked",
            req |-> req, host |-> host, found |-> res.found, backends |-> res.backends, selected |-> 0,
            status |-> IF ~res.found \/ Len(res.backends) = 0 THEN 410 ELSE 0,
            logs |-> <<>>, upstream |-> "none", selections |-> 0,
            committed |-> Lookup(committedRouting, host)]]
    /\ UNCHANGED <<filterVars, serviceVars>>
    /\ UNCHANGED <<storeVars, dnsRuleCache, backendCountMap, refresh, committedRouting, cacheClean>>

\* proxyHandler called for host by a peer that sends no forwarding headers.
ProxyLookup(p, host) == ProxyAccept(p, ArrivingRequest(host))

\* proxyHandler, line 208: selectBackend on the looked-up list, which holds
\* backendCountMapLock from the reading of the counts to the increment; limit
\* bounds the selections of one behaviour.
ProxySelectUpTo(p, limit) ==
    /\ proxy[p].pc = "looked"
    /\ SumOver(backendCountMap, Urls) < limit
    /\ proxy' = [proxy EXCEPT ![p] =
           [@ EXCEPT !.pc = "selected",
                     !.selections = @ + 1,
                     !.selected = proxy[p].backends[selectBackend(proxy[p].backends, backendCountMap)].id]]
    /\ backendCountMap' = CountsAfterSelect(proxy[p].backends, backendCountMap)
    /\ UNCHANGED <<filterVars, serviceVars>>
    /\ UNCHANGED <<storeVars, dnsRuleCache, refresh, committedRouting, cacheClean>>

ProxySelect(p) == ProxySelectUpTo(p, MaxSelections)

\* What the backend does with the forwarded request: it answers with a status,
\* or the transport fails.
UpstreamStatuses == {200, 500}
UpstreamOutcomes ==
    {[kind |-> "response", status |-> st] : st \in UpstreamStatuses} \cup {[kind |-> "error", status |-> 0]}

\* The arguments of a logRequest call that matter here.
LogCall(clientIP, backendID, statusCode, isSuccess) ==
    [clientIP |-> clientIP, backendID |-> backendID, statusCode |-> statusCode, isSuccess |-> isSuccess]

\* Mutant of ResponseLog: the entry always says 200.
ResponseLogOk(clientIP, backendID, statusCode) == LogCall(clientIP, backendID, 200, TRUE)
\* ModifyResponse, line 229: the entry for an upstream response.
ResponseLog(clientIP, backendID, statusCode) == LogCall(clientIP, backendID, statusCode, TRUE)

\* Mutant of ErrorLog: the transport error is logged as a success.
ErrorLogAsSuccess(clientIP, backendID) == LogCall(clientIP, backendID, 502, TRUE)
\* ErrorHandler, line 241: the entry for a transport error.
ErrorLog(clientIP, backendID) == LogCall(clientIP, backendID, 502, FALSE)

\* proxyHandler, lines 210-245: the request goes to the selected backend once;
\* its response is relayed and logged by ModifyResponse, a transport error is
\* answered 502 and logged by ErrorHandler.
ProxyForward(p, outcome) ==
    /\ proxy[p].pc = "selected"
    /\ proxy' = [proxy EXCEPT ![p] =
           [@ EXCEPT !.pc = "served",
                     !.upstream = outcome.kind,
                     !.status = IF outcome.kind = "response" THEN outcome.status ELSE 502,
                     !.logs = Append(@, IF outcome.kind = "response"
                                        THEN ResponseLog(proxy[p].req.remoteAddr, proxy[p].selected,
                                                         outcome.status)
                                        ELSE ErrorLog(proxy[p].req.remoteAddr, proxy[p].selected))]]
    /\ UNCHANGED <<filterVars, serviceVars>>
    /\ UNCHANGED <<storeVars, dnsRuleCache, backendCountMap, refresh, committedRouting, cacheClean>>

\* The handler returns (response written); the slot serves the next request.
ProxyReturn(p) ==
    /\ proxy[p].pc \in {"gone", "served"}
    /\ proxy' = [proxy EXCEPT ![p] = IdleProxy]
    /\ UNCHANGED <<filterVars, serviceVars>>
    /\ UNCHANGED <<storeVars, dnsRuleCache, backendCountMap, refresh, committedRouting, cacheClean>>

-----------------------------------------------------------------------------
(* handlers: admin mutations of backends (none of them refreshes the cache) *)

\* History: a committed store mutation makes every refresh in flight, and the
\* live cache, possibly stale.
StoreChanged ==
    /\ cacheClean' = FALSE
    /\ refresh' = [r \in DOMAIN refresh |-> [refresh[r] EXCEPT !.clean = FALSE]]
    /\ adminOps < MaxAdminOps
    /\ adminOps' = adminOps + 1
    /\ UNCHANGED <<dnsRuleCache, backendCountMap, proxy, committedRouting>>
    /\ UNCHANGED <<filterVars, serviceVars>>

\* UpdateBackend: weight is written when > 0 (0 = not supplied); isActive always.
UpdateBackend(id, weight, isActive) ==
    /\ \E b \in backends : b.id = id
    /\ backends' = {IF b.id = id
                    THEN [b EXCEPT !.weight = IF weight > 0 THEN weight ELSE @,
                                   !.isActive = isActive]
                    ELSE b : b \in backends}
    /\ backends' # backends
    /\ StoreChanged
    /\ UNCHANGED <<dns_rules, dns_backend_map, sqlite_sequence, storeFaults>>

\* DeleteBackend: the mappings and the backend row go in one transaction.
DeleteBackend(id) ==
    /\ \E b \in backends : b.id = id
    /\ backends' = {b \in backends : b.id # id}
    /\ dns_backend_map' = {m \in dns_backend_map : m[2] # id}
    /\ StoreChanged
    /\ UNCHANGED <<dns_rules, sqlite_sequence, storeFaults>>

-----------------------------------------------------------------------------
(* Strings (package strings), on sequences of characters *)

HasPrefix(s, prefix) == Len(prefix) <= Len(s) /\ SubSeq(s, 1, Len(prefix)) = prefix

HasSuffix(s, suffix) ==
    Len(suffix) <= Len(s) /\ SubSeq(s, Len(s) - Len(suffix) + 1, Len(s)) = suffix

Contains(s, substr) ==
    \E i \in 0..(Len(s) - Len(substr)) : SubSeq(s, i + 1, i + Len(substr)) = substr

\* The least index of character c in s, 0 when c does not occur.
IndexByte(s, c) ==
    IF \E i \in 1..Len(s) : s[i] = c
    THEN CHOOSE i \in 1..Len(s) : s[i] = c /\ \A j \in 1..(i - 1) : s[j] # c
    ELSE 0

RECURSIVE Split(_, _)
\* strings.Split(s, sep) for a one-character separator.
Split(s, c) ==
    LET i == IndexByte(s, c)
    IN IF i = 0 THEN <<s>>
       ELSE <<SubSeq(s, 1, i - 1)>> \o Split(SubSeq(s, i + 1, Len(s)), c)

RECURSIVE TrimSpace(_)
TrimSpace(s) ==
    IF s # <<>> /\ Head(s) = " " THEN TrimSpace(Tail(s))
    ELSE IF s # <<>> /\ s[Len(s)] = " " THEN TrimSpace(SubSeq(s, 1, Len(s) - 1))
    ELSE s

-----------------------------------------------------------------------------
(* IPv4 addresses and CIDR blocks (package net), as the filter uses them *)

DigitChars == {"0", "1", "2", "3", "4", "5", "6", "7", "8", "9"}

DigitVal(c) ==
    CASE c = "0" -> 0 [] c = "1" -> 1 [] c = "2" -> 2 [] c = "3" -> 3 [] c = "4" -> 4
      [] c = "5" -> 5 [] c = "6" -> 6 [] c = "7" -> 7 [] c = "8" -> 8 [] c = "9" -> 9

IsNumber(s) == s # <<>> /\ \A i \in 1..Len(s) : s[i] \in DigitChars

RECURSIVE DecValue(_)
DecValue(s) ==
    IF s = <<>> THEN 0 ELSE DecValue(SubSeq(s, 1, Len(s) - 1)) * 10 + DigitVal(s[Len(s)])

\* One field of a dotted quad: 1 to 3 digits, no leading zero, at most 255.
IsOctet(f) ==
    /\ IsNumber(f)
    /\ Len(f) <= 3
    /\ (Len(f) > 1 => f[1] # "0")
    /\ DecValue(f) <= 255

NilIP == <<>>

\* net.ParseIP for dotted-quad text: the four octets, or NilIP.
ParseIP(s) ==
    LET fs == Split(s, ".")
    IN IF Len(fs) = 4 /\ \A i \in 1..4 : IsOctet(fs[i])
       THEN [i \in 1..4 |-> DecValue(fs[i])]
       ELSE NilIP

\* net.ParseCIDR: [ok, ip, bits]; the text is cut at its first "/".
ParseCIDR(s) ==
    LET i == IndexByte(s, "/")
        addr == SubSeq(s, 1, i - 1)
        mask == SubSeq(s, i + 1, Len(s))
    IN IF i > 0 /\ ParseIP(addr) # NilIP /\ IsNumber(mask) /\ Len(mask) <= 3 /\ DecValue(mask) <= 32
       THEN [ok |-> TRUE, ip |-> ParseIP(addr), bits |-> DecValue(mask)]
       ELSE [ok |-> FALSE, ip |-> NilIP, bits |-> 0]

Pow2(n) == CASE n = 0 -> 1 [] n = 1 -> 2 [] n = 2 -> 4 [] n = 3 -> 8 [] n = 4 -> 16
             [] n = 5 -> 32 [] n = 6 -> 64 [] n = 7 -> 128 [] n = 8 -> 256

\* IPNet.Contains: ip agrees with the block on its first `bits` bits.
IPNetContains(net, ip) ==
    LET full == net.bits \div 8
        rest == net.bits % 8
    IN /\ \A k \in 1..full : ip[k] = net.ip[k]
       /\ rest > 0 => (ip[full + 1] \div Pow2(8 - rest)) = (net.ip[full + 1] \div Pow2(8 - rest))

-----------------------------------------------------------------------------
(* filter: the match predicate *)

Star == <<"*">>

\* Mutant of matchesWildcard: a pattern that only starts with the star matches
\* any text holding the rest of it.
matchesWildcardAnywhere(pattern, text) ==
    IF pattern = Star THEN TRUE
    ELSE IF HasPrefix(pattern, Star) /\ HasSuffix(pattern, Star)
         THEN Contains(text, SubSeq(pattern, 2, Len(pattern) - 1))
    ELSE IF HasPrefix(pattern, Star) THEN Contains(text, SubSeq(pattern, 2, Len(pattern)))
    ELSE IF HasSuffix(pattern, Star) THEN HasPrefix(text, SubSeq(pattern, 1, Len(pattern) - 1))
    ELSE pattern = text

matchesWildcard(pattern, text) ==
    IF pattern = Star THEN TRUE
    ELSE IF HasPrefix(pattern, Star) /\ HasSuffix(pattern, Star)
         THEN Contains(text, SubSeq(pattern, 2, Len(pattern) - 1))
    ELSE IF HasPrefix(pattern, Star) THEN HasSuffix(text, SubSeq(pattern, 2, Len(pattern)))
    ELSE IF HasSuffix(pattern, Star) THEN HasPrefix(text, SubSeq(pattern, 1, Len(pattern) - 1))
    ELSE pattern = text

matchesIP(pattern, clientIP) ==
    IF Contains(pattern, <<"/">>)
    THEN /\ ParseCIDR(pattern).ok
         /\ ParseIP(clientIP) # NilIP
         /\ IPNetContains(ParseCIDR(pattern), ParseIP(clientIP))
    ELSE IF Contains(pattern, Star) THEN matchesWildcard(pattern, clientIP)
    ELSE Contains(clientIP, pattern)

matchesPath(pattern, requestPath) ==
    IF Contains(pattern, Star) THEN matchesWildcard(pattern, requestPath)
    ELSE IF HasSuffix(pattern, <<"/">>) THEN HasPrefix(requestPath, pattern)
    ELSE Contains(requestPath, pattern)

matchesDNS(pattern, hostname) ==
    IF Contains(pattern, Star) THEN matchesWildcard(pattern, hostname)
    ELSE Contains(hostname, pattern)

matchesRule(rule, clientIP, hostname, requestPath) ==
    CASE rule.match_type = "ip" -> matchesIP(rule.match_value, clientIP)
      [] rule.match_type = "path" -> matchesPath(rule.match_value, requestPath)
      [] rule.match_type = "dns" -> matchesDNS(rule.match_value, hostname)
      [] OTHER -> FALSE

-----------------------------------------------------------------------------
(* filter: the action of a matched rule *)

getStatusCodeForAction(rule) ==
    CASE rule.action_type = "redirect" -> 302
      [] rule.action_type = "bad_request" -> 400
      [] rule.action_type = "too_many" -> 429
      [] rule.action_type = "custom" -> (IF rule.status_code > 0 THEN rule.status_code ELSE 403)
      [] OTHER -> 403

getResponseForAction(rule) ==
    CASE rule.action_type = "redirect" -> ""
      [] rule.action_type = "bad_request" ->
            (IF rule.action_value # "" THEN rule.action_value ELSE "Bad Request")
      [] rule.action_type = "too_many" ->
            (IF rule.action_value # "" THEN rule.action_value ELSE "Too Many Requests")
      [] rule.action_type = "custom" ->
            (IF rule.action_value # "" THEN rule.action_value ELSE "Request Blocked")
      [] OTHER -> "Request Blocked"

getRedirectURLForAction(rule) ==
    IF rule.action_type = "redirect" THEN rule.action_value ELSE ""

\* getClientIP: the first X-Forwarded-For entry, else X-Real-IP, else the peer
\* address without its port (the whole RemoteAddr when it has no single ":").
getClientIP(req) ==
    IF req.xff # <<>> THEN TrimSpace(Split(req.xff, ",")[1])
    ELSE IF req.xri # <<>> THEN req.xri
    ELSE LET parts == Split(req.remoteAddr, ":")
         IN IF Len(parts) = 2 THEN parts[1] ELSE req.remoteAddr

-----------------------------------------------------------------------------
(* filter: refreshFilterCache *)

\* Mutant of FilterOrder: ORDER BY id ASC alone.
FilterOrderById(a, b) == a.id < b.id

\* Whether rule a comes before rule b under ORDER BY priority DESC, id ASC.
FilterOrder(a, b) == a.priority > b.priority \/ (a.priority = b.priority /\ a.id < b.id)

RECURSIVE SortRules(_)
SortRules(S) ==
    IF S = {} THEN <<>>
    ELSE LET first == CHOOSE x \in S : \A y \in S \ {x} : FilterOrder(x, y)
         IN <<first>> \o SortRules(S \ {first})

\* SELECT ... FROM filter_rules WHERE is_active = 1 ORDER BY priority DESC, id ASC
QueryActiveFilterRules == SortRules({f \in filter_rules : f.is_active})

\* The row loop of refreshFilterCache: rows whose Scan fails are skipped.
ScanFilterRows(rows, badScan) == SelectSeq(rows, LAMBDA f : f.id \notin badScan)

IdleFilterRefresh == [pc |-> "idle", rules |-> <<>>, failed |-> FALSE]

\* refreshFilterCache, lines 35-65: the query and the row loop.  On a query error
\* the call returns and the live cache is untouched.
FilterRefreshQuery ==
    /\ mainPc \notin Ended
    /\ dbOpen
    /\ frefresh.pc = "query"
    /\ \E ok \in {TRUE} \cup (IF storeFaults THEN {FALSE} ELSE {}),
          badScan \in (IF storeFaults THEN SUBSET {f.id : f \in filter_rules} ELSE {{}}) :
         /\ ~ok => badScan = {}
         /\ frefresh' = IF ok
                        THEN [pc |-> "swap",
                              rules |-> ScanFilterRows(QueryActiveFilterRules, badScan),
                              failed |-> badScan # {}]
                        ELSE IdleFilterRefresh
    /\ UNCHANGED <<filter_rules, nextFilterId, filterRuleCache, filter, committedFilter>>
    /\ UNCHANGED <<storeFaults, adminOps, configVars, routingVars, serviceVars>>

\* refreshFilterCache, lines 67-70: the swap under filterRuleCacheLock.
FilterRefreshSwap ==
    /\ frefresh.pc = "swap"
    /\ filterRuleCache' = frefresh.rules
    /\ committedFilter' = frefresh.rules
    /\ frefresh' = IdleFilterRefresh
    /\ UNCHANGED <<filter_rules, nextFilterId, filter>>
    /\ UNCHANGED <<storeFaults, adminOps, configVars, routingVars, serviceVars>>

-----------------------------------------------------------------------------
(* filter: FilterRequest *)

Pass == [Filtered |-> FALSE, RuleId |-> 0, StatusCode |-> 0, Response |-> "", RedirectURL |-> ""]

FilteredBy(rule) ==
    [Filtered |-> TRUE, RuleId |-> rule.id, StatusCode |-> getStatusCodeForAction(rule),
     Response |-> getResponseForAction(rule), RedirectURL |-> getRedirectURLForAction(rule)]

\* committed: history only, the list installed by the last swap at the moment
\* the call copied the cache.
IdleFilter == [pc |-> "idle", req |-> NoRequest, rules |-> <<>>, idx |-> 0, result |-> Pass,
               committed |-> <<>>]

\* FilterRequest, lines 77-80: the copy of the cache under the read lock.
FilterCapture(q, req) ==
    /\ filter[q].pc = "idle"
    /\ filter' = [filter EXCEPT ![q] =
           [pc |-> "eval", req |-> req, rules |-> filterRuleCache, idx |-> 1, result |-> Pass,
            committed |-> committedFilter]]
    /\ UNCHANGED <<filter_rules, nextFilterId, filterRuleCache, frefresh, committedFilter>>
    /\ UNCHANGED <<storeFaults, adminOps, configVars, routingVars, serviceVars>>

\* Mutant of RuleAt: the loop reads the shared slice instead of the call's copy.
RuleAtLive(q, i) ==
    IF i <= Len(filterRuleCache) THEN filterRuleCache[i] ELSE filter[q].rules[i]

\* The i-th rule the loop of line 88 looks at: an element of the call's own copy.
RuleAt(q, i) == filter[q].rules[i]

\* The number of rules the loop of line 88 ranges over.
RuleCount(q) == Len(filter[q].rules)

\* FilterRequest, lines 88-103: one iteration of the loop, or its end.
FilterStep(q) ==
    /\ filter[q].pc = "eval"
    /\ LET i == filter[q].idx
           req == filter[q].req
       IN filter' = [filter EXCEPT ![q] =
            IF i > RuleCount(q) THEN [@ EXCEPT !.pc = "done", !.result = Pass]
            ELSE IF matchesRule(RuleAt(q, i), getClientIP(req), req.host, req.path)
                 THEN [@ EXCEPT !.pc = "done", !.result = FilteredBy(RuleAt(q, i))]
                 ELSE [@ EXCEPT !.idx = i + 1]]
    /\ UNCHANGED <<filter_rules, nextFilterId, filterRuleCache, frefresh, committedFilter>>
    /\ UNCHANGED <<storeFaults, adminOps, configVars, routingVars, serviceVars>>

\* The caller has consumed the result; the slot serves the next request.
FilterReturn(q) ==
    /\ filter[q].pc = "done"
    /\ filter' = [filter EXCEPT ![q] = IdleFilter]
    /\ UNCHANGED <<filter_rules, nextFilterId, filterRuleCache, frefresh, committedFilter>>
    /\ UNCHANGED <<storeFaults, adminOps, configVars, routingVars, serviceVars>>

-----------------------------------------------------------------------------
(* handlers: admin mutations of filter rules; each ends in RefreshFilterCache *)

\* The fields of a filter rule that a request body supplies.
FirstRuleBody ==
    [match_type |-> "path", match_value |-> <<"/", "a", "/">>,
     action_type |-> "bad_request", action_value |-> "no", status_code |-> 200]

RuleBodies ==
    { FirstRuleBody,
      [match_type |-> "ip", match_value |-> <<"1", "0", ".", "0", ".", "0", ".", "0", "/", "8">>,
       action_type |-> "too_many", action_value |-> "", status_code |-> 200],
      [match_type |-> "dns", match_value |-> <<"*", ".", "t">>,
       action_type |-> "custom", action_value |-> "", status_code |-> 451],
      [match_type |-> "path", match_value |-> <<"b">>,
       action_type |-> "redirect", action_value |-> "https://new", status_code |-> 200] }

FilterRow(id, body, priority, active) ==
    [id |-> id, match_type |-> body.match_type, match_value |-> body.match_value,
     action_type |-> body.action_type, action_value |-> body.action_value,
     status_code |-> body.status_code, is_active |-> active, priority |-> priority]

\* History and budget shared by the filter mutations; the handler goes on to
\* refreshFilterCache.
FilterStoreChanged ==
    /\ frefresh.pc = "idle"
    /\ adminOps < MaxAdminOps
    /\ adminOps' = adminOps + 1
    /\ frefresh' = [IdleFilterRefresh EXCEPT !.pc = "query"]
    /\ UNCHANGED <<filterRuleCache, filter, committedFilter, storeFaults, configVars, routingVars, serviceVars>>

\* CreateFilterRule, lines 60-62: a status code of 0 (none supplied) is stored
\* as 200.
WithDefaultStatus(body) == [body EXCEPT !.status_code = IF @ = 0 THEN 200 ELSE @]

CreateFilterRule(body, priority, active) ==
    /\ nextFilterId <= MaxFilterRules
    /\ filter_rules' = filter_rules \cup
                           {FilterRow(nextFilterId, WithDefaultStatus(body), priority, active)}
    /\ nextFilterId' = nextFilterId + 1
    /\ FilterStoreChanged

UpdateFilterRule(id, body, priority, active) ==
    /\ \E f \in filter_rules : f.id = id
    /\ filter_rules' = {IF f.id = id THEN FilterRow(id, body, priority, active) ELSE f :
                            f \in filter_rules}
    /\ UNCHANGED nextFilterId
    /\ FilterStoreChanged

DeleteFilterRule(id) ==
    /\ \E f \in filter_rules : f.id = id
    /\ filter_rules' = {f \in filter_rules : f.id # id}
    /\ UNCHANGED nextFilterId
    /\ FilterStoreChanged

ToggleFilterRule(id) ==
    /\ \E f \in filter_rules : f.id = id
    /\ filter_rules' = {IF f.id = id THEN [f EXCEPT !.is_active = ~@] ELSE f : f \in filter_rules}
    /\ UNCHANGED nextFilterId
    /\ FilterStoreChanged

-----------------------------------------------------------------------------
(* Filter specification *)

\* The requests the model sends.
Requests ==
    { [remoteAddr |-> <<"1", "0", ".", "1", ".", "2", ".", "3", ":", "8">>, xff |-> <<>>, xri |-> <<>>,
       host |-> HostA, path |-> <<"/", "a", "/", "b">>],
      [remoteAddr |-> <<"9", ".", "9", ".", "9", ".", "9", ":", "8">>, xff |-> <<>>, xri |-> <<>>,
       host |-> <<"c">>, path |-> <<"/", "c">>] }

\* The store holds one active filter rule; the cache is what the start-up
\* refresh of Initialize built from it.
InitFilterWith(body) ==
    /\ filter_rules = {FilterRow(1, body, 0, TRUE)}
    /\ nextFilterId = 2
    /\ filterRuleCache = QueryActiveFilterRules
    /\ frefresh = IdleFilterRefresh
    /\ filter = [q \in FilterCalls |-> IdleFilter]
    /\ committedFilter = filterRuleCache

InitFilter == InitFilterWith(FirstRuleBody)

-----------------------------------------------------------------------------
(* The clock *)

\* History: no request was handled by the rate limiter in the last step.
NoCall == [called |-> FALSE]

\* Time passes by d seconds, up to limit.  Counter windows whose interval is
\* over leave the history.
Tick(d, limit) ==
    /\ now + d <= limit
    /\ now' = now + d
    /\ windows' = {w \in windows : w.start + w.period >= now'}
    /\ UNCHANGED <<storeVars, routingVars, filterVars>>
    /\ rlLast' = NoCall
    /\ UNCHANGED <<dnsConfigMap, ipMap, rlCalls, windowStart>>
    /\ UNCHANGED <<loggerVars, logStoreVars, sweeperVars>>

-----------------------------------------------------------------------------
(* middleware: the per-host rate limiter *)

\* NewRateLimiter(100, time.Minute)
defaultMaxRequests == 100
defaultIntervalSecs == 60

MaxQuota == 2         \* configured quotas range over 1..MaxQuota
LongPeriod == 300     \* the configured period longer than the default one
NumClients == 1       \* client IPs
MaxCalls == 3         \* requests handled by the middleware in one behaviour
TickSecs == 100       \* the step of the clock in the rate limiter specification
MaxTime == 400        \* the clock stops there in the rate limiter specification

ClientIPs == {<<"198.51.100.", i>> : i \in 1..NumClients}
Periods == {defaultIntervalSecs, LongPeriod}
RootPath == <<"/">>
AdminPath == <<"/", "a", "d", "m", "i", "n", "/", "x">>

\* The config loadDNSConfigs makes of one scanned row: defaults in place of
\* values <= 0, stamped with the load time t.
ConfigOf(rule, t) ==
    [Hostname |-> rule.hostname,
     Enabled |-> rule.rate_limit_enabled,
     Quota |-> IF rule.rate_limit_quota <= 0 THEN defaultMaxRequests ELSE rule.rate_limit_quota,
     PeriodSecs |-> IF rule.rate_limit_period <= 0 THEN defaultIntervalSecs
                    ELSE rule.rate_limit_period,
     LastUpdated |-> t]

\* newConfigs of loadDNSConfigs for the scanned rows rules (hostname is UNIQUE).
newConfigs(rules, t) ==
    [h \in {r.hostname : r \in rules} |-> ConfigOf(CHOOSE r \in rules : r.hostname = h, t)]

\* History: the limits of host h are the same in the maps old and new.
SameLimits(old, new, h) ==
    /\ (h \in DOMAIN old) <=> (h \in DOMAIN new)
    /\ h \in DOMAIN old =>
          /\ old[h].Enabled = new[h].Enabled
          /\ old[h].Quota = new[h].Quota
          /\ old[h].PeriodSecs = new[h].PeriodSecs

\* History: a window is marked once the limits of its host change under it.
WindowsAfterLoad(ws, old, new) ==
    {[w EXCEPT !.stable = @ /\ SameLimits(old, new, w.host)] : w \in ws}

\* loadDNSConfigs (periodic or on demand): an error of the query leaves the map
\* alone; a row whose Scan fails is skipped; the new map replaces the old one.
loadDNSConfigs ==
    /\ mainPc \notin Ended
    /\ dbOpen
    /\ \E failed \in (IF storeFaults THEN BOOLEAN ELSE {FALSE}),
          badScan \in (IF storeFaults THEN SUBSET {r.id : r \in dns_rules} ELSE {{}}) :
          dnsConfigMap' = IF failed THEN dnsConfigMap
                          ELSE newConfigs({r \in dns_rules : r.id \notin badScan}, now)
    /\ windows' = WindowsAfterLoad(windows, dnsConfigMap, dnsConfigMap')
    /\ UNCHANGED <<storeVars, routingVars, filterVars>>
    /\ rlLast' = NoCall
    /\ UNCHANGED <<clockVars, ipMap, rlCalls, windowStart>>
    /\ UNCHANGED <<loggerVars, logStoreVars, sweeperVars>>

\* The bypass test on c.Path().
IsAdminPath(path) ==
    path # RootPath /\ Len(path) >= 6 /\ SubSeq(path, 1, 6) = SubSeq(AdminPath, 1, 6)

NewHostCount(t) == [count |-> 1, lastSeen |-> t]

\* Mutant of SkipsLimiting: a disabled config is limited like a missing one.
SkipsLimitingNever(cfgs, hostname) == FALSE
\* Lines 546-550: a config that exists and is disabled skips the limiter.
SkipsLimiting(cfgs, hostname) == hostname \in DOMAIN cfgs /\ ~cfgs[hostname].Enabled

\* Line 593: the test for a new interval, on the time of the counter's last request.
ResetDue(t, lastSeen, interval) == t - lastSeen > interval

\* Mutant of LimitExceeded: the request that reaches the quota is rejected.
LimitExceededAtQuota(count, maxRequests) == count >= maxRequests
\* Line 604: the test on the incremented counter.
LimitExceeded(count, maxRequests) == count > maxRequests

\* The body of the middleware for a request of ip to hostname at time t, on
\* the maps ipm and cfgs: the ipMap afterwards, whether the request is passed
\* on (c.Next) and whether the per-host counter was created or set back to 1.
Limited(ipm, cfgs, ip, hostname, t) ==
    LET exists == hostname \in DOMAIN cfgs
        enabled == exists /\ cfgs[hostname].Enabled
        maxRequests == IF enabled THEN cfgs[hostname].Quota ELSE defaultMaxRequests
        interval == IF enabled THEN cfgs[hostname].PeriodSecs ELSE defaultIntervalSecs
    IN  IF SkipsLimiting(cfgs, hostname)
        THEN [ipMap |-> ipm, passed |-> TRUE, reset |-> FALSE]
        ELSE IF ip \notin DOMAIN ipm
        THEN [ipMap |-> (ip :> [count |-> 1, lastSeen |-> t,
                                hostCounts |-> (hostname :> NewHostCount(t))]) @@ ipm,
              passed |-> TRUE, reset |-> TRUE]
        ELSE LET limit == [ipm[ip] EXCEPT !.count = @ + 1, !.lastSeen = t]
                 hc == limit.hostCounts
             IN  IF hostname \notin DOMAIN hc
                 THEN [ipMap |-> [ipm EXCEPT ![ip] =
                                    [limit EXCEPT !.hostCounts = (hostname :> NewHostCount(t)) @@ hc]],
                       passed |-> TRUE, reset |-> TRUE]
                 ELSE IF ResetDue(t, hc[hostname].lastSeen, interval)
                 THEN [ipMap |-> [ipm EXCEPT ![ip] =
                                    [limit EXCEPT !.hostCounts[hostname] = NewHostCount(t)]],
                       passed |-> TRUE, reset |-> TRUE]
                 ELSE LET c == hc[hostname].count + 1
                      IN  [ipMap |-> [ipm EXCEPT ![ip] =
                                        [limit EXCEPT !.hostCounts[hostname] =
                                                         [count |-> c, lastSeen |-> t]]],
                           passed |-> ~LimitExceeded(c, maxRequests), reset |-> FALSE]

\* History: a passed request counts in every running window of its ip and
\* host; a reset under an enabled config opens a window with that config's
\* quota and period.
WindowsAfter(ws, cfgs, ip, hostname, t, out) ==
    LET counted == {IF w.ip = ip /\ w.host = hostname /\ out.passed /\ t <= w.start + w.period
                    THEN [w EXCEPT !.passed = @ + 1] ELSE w : w \in ws}
    IN  IF out.reset /\ hostname \in DOMAIN cfgs /\ cfgs[hostname].Enabled
        THEN counted \cup {[ip |-> ip, host |-> hostname, start |-> t,
                            quota |-> cfgs[hostname].Quota, period |-> cfgs[hostname].PeriodSecs,
                            passed |-> 1, stable |-> TRUE]}
        ELSE counted

\* History: the per-host counters of the map ipm.
CountersOf(ipm) ==
    {k \in (DOMAIN ipm) \X (Hostnames \cup {UnknownHost}) : k[2] \in DOMAIN ipm[k[1]].hostCounts}

\* History: the start times after a request handled at t with outcome out.
StartsAfter(starts, ip, hostname, t, out) ==
    [k \in CountersOf(out.ipMap) |->
        IF k = <<ip, hostname>> /\ out.reset THEN t ELSE starts[k]]

\* History: the record of a request handled at t with outcome out.  had: the
\* per-host counter existed before the request; elapsed: the time since that
\* counter was created or set back; count: the counter after the request;
\* status: 429 for a rejected request, 0 for one handed to c.Next().
CallRecord(ipm, cfgs, starts, ip, hostname, t, out) ==
    LET had == <<ip, hostname>> \in DOMAIN starts
        exists == hostname \in DOMAIN cfgs
        enabled == exists /\ cfgs[hostname].Enabled
        counted == <<ip, hostname>> \in CountersOf(out.ipMap)
    IN  [called |-> TRUE, ip |-> ip, host |-> hostname,
         exists |-> exists, enabled |-> enabled,
         quota |-> IF enabled THEN cfgs[hostname].Quota ELSE defaultMaxRequests,
         period |-> IF enabled THEN cfgs[hostname].PeriodSecs ELSE defaultIntervalSecs,
         had |-> had, elapsed |-> IF had THEN t - starts[<<ip, hostname>>] ELSE 0,
         count |-> IF counted THEN out.ipMap[ip].hostCounts[hostname].count ELSE 0,
         reset |-> out.reset, passed |-> out.passed,
         status |-> IF out.passed THEN 0 ELSE 429]

\* The middleware body for one request of ip for hostname and path.
MiddlewareBody(ip, hostname, path) ==
    /\ rlCalls' = rlCalls + 1
    /\ IF IsAdminPath(path)
       THEN /\ rlLast' = [called |-> TRUE, ip |-> ip, host |-> hostname,
                          exists |-> FALSE, enabled |-> FALSE, quota |-> 0, period |-> 0,
                          had |-> FALSE, elapsed |-> 0, count |-> 0, reset |-> FALSE,
                          passed |-> TRUE, status |-> 0]
            /\ UNCHANGED <<ipMap, windows, windowStart>>
       ELSE LET out == Limited(ipMap, dnsConfigMap, ip, hostname, now)
            IN  /\ ipMap' = out.ipMap
                /\ windows' = WindowsAfter(windows, dnsConfigMap, ip, hostname, now, out)
                /\ windowStart' = StartsAfter(windowStart, ip, hostname, now, out)
                /\ rlLast' = CallRecord(ipMap, dnsConfigMap, windowStart, ip, hostname, now, out)
    /\ UNCHANGED <<storeVars, routingVars, filterVars>>
    /\ UNCHANGED <<clockVars, dnsConfigMap, loggerVars, logStoreVars, backgroundVars>>

Middleware(ip, hostname, path) ==
    /\ MiddlewareBody(ip, hostname, path)
    /\ UNCHANGED solo

\* RateLimiterMiddleware: one request of ip for hostname and path.
RateLimiterMiddleware(ip, hostname, path) ==
    /\ rlCalls < MaxCalls
    /\ Middleware(ip, hostname, path)

\* The interval cleanup uses for a per-host counter.
CleanupInterval(cfgs, h) ==
    IF h \in DOMAIN cfgs /\ cfgs[h].Enabled THEN cfgs[h].PeriodSecs ELSE defaultIntervalSecs

\* The ipMap after one pass of cleanup at time t.
Cleaned(ipm, cfgs, t) ==
    LET keptIps == {ip \in DOMAIN ipm : ~(t - ipm[ip].lastSeen > 3 * defaultIntervalSecs)}
        keptHosts(ip) == {h \in DOMAIN ipm[ip].hostCounts :
                            ~(t - ipm[ip].hostCounts[h].lastSeen > 3 * CleanupInterval(cfgs, h))}
    IN  [ip \in keptIps |->
            [ipm[ip] EXCEPT !.hostCounts = [h \in keptHosts(ip) |-> ipm[ip].hostCounts[h]]]]

\* One firing of the ticker of cleanup.
cleanupPass ==
    /\ mainPc \notin Ended
    /\ ipMap' = Cleaned(ipMap, dnsConfigMap, now)
    /\ windowStart' = [k \in CountersOf(ipMap') |-> windowStart[k]]
    /\ UNCHANGED <<storeVars, routingVars, filterVars>>
    /\ rlLast' = NoCall
    /\ UNCHANGED <<clockVars, dnsConfigMap, rlCalls, windows, loggerVars, logStoreVars,
                   backgroundVars>>

cleanup ==
    /\ cleanupPass
    /\ UNCHANGED solo

\* History: the maps of the limiter for single pairs of a client and a host,
\* and the decision the last request got in the map of its pair.
NoSolo == [maps |-> EmptyMap, passed |-> TRUE]

SoloAfterRequest(s, cfgs, ip, hostname, t) ==
    LET k == <<ip, hostname>>
        out == Limited(IF k \in DOMAIN s.maps THEN s.maps[k] ELSE EmptyMap, cfgs, ip, hostname, t)
    IN  [maps |-> [x \in DOMAIN s.maps \cup {k} |-> IF x = k THEN out.ipMap ELSE s.maps[x]],
         passed |-> out.passed]

SoloAfterCleanup(s, cfgs, t) ==
    [s EXCEPT !.maps = [k \in DOMAIN s.maps |-> Cleaned(s.maps[k], cfgs, t)]]

\* A request of ip for hostname, with the history of its pair kept.
SoloRequest(ip, hostname) ==
    /\ rlCalls < MaxCalls
    /\ MiddlewareBody(ip, hostname, RootPath)
    /\ solo' = SoloAfterRequest(solo, dnsConfigMap, ip, hostname, now)

\* A cleanup pass, made on the map of every pair as well.
SoloCleanup ==
    /\ cleanupPass
    /\ solo' = SoloAfterCleanup(solo, dnsConfigMap, now)

-----------------------------------------------------------------------------
(* handlers: CreateDNSRule, UpdateDNSRule, DeleteDNSRule *)

\* c.BodyParser(&req) on a JSON object json (a record of the fields the body
\* carries): a field the body does not carry is left at the zero value of its
\* Go type.
BodyParser(json) ==
    [Hostname |-> IF "hostname" \in DOMAIN json THEN json.hostname ELSE <<>>,
     TargetBackendURLs |-> IF "target_backend_urls" \in DOMAIN json
                           THEN json.target_backend_urls ELSE <<>>,
     RateLimitEnabled |-> IF "rate_limit_enabled" \in DOMAIN json
                          THEN json.rate_limit_enabled ELSE FALSE,
     RateLimitQuota |-> IF "rate_limit_quota" \in DOMAIN json THEN json.rate_limit_quota ELSE 0,
     RateLimitPeriod |-> IF "rate_limit_period" \in DOMAIN json THEN json.rate_limit_period ELSE 0,
     LogRetentionDays |-> IF "log_retention_days" \in DOMAIN json
                          THEN json.log_retention_days ELSE 0,
     HealthCheckEnabled |-> IF "health_check_enabled" \in DOMAIN json
                            THEN json.health_check_enabled ELSE FALSE]

\* The tables a transaction works on.
Store == [dns_rules |-> dns_rules, backends |-> backends, dns_backend_map |-> dns_backend_map,
          sqlite_sequence |-> sqlite_sequence]

RECURSIVE PutBackends(_, _, _, _, _)
\* The loop over req.TargetBackendURLs from its i-th element: a backend whose
\* url is not in the table is inserted; in UpdateDNSRule (update) one that is
\* there is rewritten when the body gives a weight > 0 or isActive; then the
\* mapping is inserted, which fails on its PRIMARY KEY when it is there already.
PutBackends(st, ruleId, targets, i, update) ==
    IF i > Len(targets) THEN [ok |-> TRUE, st |-> st]
    ELSE LET t == targets[i]
             found == {b \in st.backends : b.url = t.url}
             backendID == IF found = {} THEN st.sqlite_sequence.backends + 1
                          ELSE (CHOOSE b \in found : TRUE).id
             st1 == IF found = {}
                    THEN [st EXCEPT !.backends = @ \cup {[id |-> backendID, url |-> t.url,
                                                         weight |-> t.weight,
                                                         isActive |-> t.isActive]},
                                    !.sqlite_sequence.backends = backendID]
                    ELSE IF update /\ (t.weight > 0 \/ t.isActive)
                    THEN [st EXCEPT !.backends =
                            {IF b.id = backendID
                             THEN [b EXCEPT !.weight = t.weight, !.isActive = t.isActive]
                             ELSE b : b \in st.backends}]
                    ELSE st
         IN  IF <<ruleId, backendID>> \in st1.dns_backend_map
             THEN [ok |-> FALSE, st |-> st]
             ELSE PutBackends([st1 EXCEPT !.dns_backend_map = @ \cup {<<ruleId, backendID>>}],
                              ruleId, targets, i + 1, update)

\* The backends among ids that no mapping refers to are deleted.
DropUnused(st, ids) ==
    [st EXCEPT !.backends =
        {b \in @ : ~(b.id \in ids /\ ~\E m \in st.dns_backend_map : m[2] = b.id)}]

\* The validation of CreateDNSRule (a hostname and at least one backend) and
\* its statements between Begin and Commit: the INSERT of the rule fails on a
\* hostname that is there already (UNIQUE).
CreateTx(st, req) ==
    LET id == st.sqlite_sequence.dns_rules + 1
        rule == [id |-> id, hostname |-> req.Hostname,
                 rate_limit_enabled |-> req.RateLimitEnabled,
                 rate_limit_quota |-> IF req.RateLimitQuota <= 0 THEN 100 ELSE req.RateLimitQuota,
                 rate_limit_period |-> IF req.RateLimitPeriod <= 0 THEN 60 ELSE req.RateLimitPeriod,
                 log_retention_days |-> IF req.LogRetentionDays <= 0 THEN 30
                                        ELSE req.LogRetentionDays,
                 health_check_enabled |-> req.HealthCheckEnabled]
    IN  IF \/ req.Hostname = <<>>
           \/ Len(req.TargetBackendURLs) = 0
           \/ \E r \in st.dns_rules : r.hostname = req.Hostname
        THEN [ok |-> FALSE, st |-> st]
        ELSE PutBackends([st EXCEPT !.dns_rules = @ \cup {rule}, !.sqlite_sequence.dns_rules = id],
                         id, req.TargetBackendURLs, 1, FALSE)

\* The row of UpdateDNSRule's UPDATE: hostname when not empty, quota, period
\* and retention when > 0, rate_limit_enabled and health_check_enabled always.
UpdatedRule(r, req) ==
    [r EXCEPT !.hostname = IF req.Hostname # <<>> THEN req.Hostname ELSE @,
              !.rate_limit_enabled = req.RateLimitEnabled,
              !.rate_limit_quota = IF req.RateLimitQuota > 0 THEN req.RateLimitQuota ELSE @,
              !.rate_limit_period = IF req.RateLimitPeriod > 0 THEN req.RateLimitPeriod ELSE @,
              !.log_retention_days = IF req.LogRetentionDays > 0 THEN req.LogRetentionDays ELSE @,
              !.health_check_enabled = req.HealthCheckEnabled]

\* The statements of UpdateDNSRule between the existence test and Commit, for
\* a rule that exists.
UpdateTx(st, id, req) ==
    LET oldBackendIDs == {m[2] : m \in {x \in st.dns_backend_map : x[1] = id}}
        st1 == [st EXCEPT !.dns_rules = {IF r.id = id THEN UpdatedRule(r, req) ELSE r : r \in @}]
        put == PutBackends([st1 EXCEPT !.dns_backend_map = {m \in @ : m[1] # id}],
                           id, req.TargetBackendURLs, 1, TRUE)
    IN  IF req.Hostname # <<>> /\ \E r \in st.dns_rules : r.id # id /\ r.hostname = req.Hostname
        THEN [ok |-> FALSE, st |-> st]
        ELSE IF Len(req.TargetBackendURLs) = 0 THEN [ok |-> TRUE, st |-> st1]
        ELSE IF ~put.ok THEN [ok |-> FALSE, st |-> st]
        ELSE [ok |-> TRUE, st |-> DropUnused(put.st, oldBackendIDs)]

\* The statements of DeleteDNSRule between Begin and Commit.
DeleteTx(st, id) ==
    LET backendIDs == {m[2] : m \in {x \in st.dns_backend_map : x[1] = id}}
    IN  [ok |-> TRUE,
         st |-> DropUnused([st EXCEPT !.dns_backend_map = {m \in @ : m[1] # id},
                                      !.dns_rules = {r \in @ : r.id # id}], backendIDs)]

\* The end of a rule handler.  "committed": the transaction is committed and
\* RefreshDNSRulesCache and RefreshRateLimiterConfigs have run (the case in
\* which the store operations of the two refreshes succeed); "unrefreshed":
\* it is committed and the handler returned before the refreshes; "rolledback":
\* the handler returned before Commit succeeded, the deferred tx.Rollback()
\* undoes the statements.
RuleHandlerEnds(st, end) ==
    /\ mainPc \notin Ended
    /\ dbOpen
    /\ adminOps < MaxAdminOps
    /\ adminOps' = adminOps + 1
    /\ IF end = "rolledback"
       THEN UNCHANGED configVars
       ELSE /\ dns_rules' = st.dns_rules
            /\ backends' = st.backends
            /\ dns_backend_map' = st.dns_backend_map
            /\ sqlite_sequence' = st.sqlite_sequence
    /\ IF end = "committed"
       THEN /\ dnsRuleCache' = BuildFromIn(st, QueryDNSRulesIn(st.dns_rules), EmptyCache)
            /\ committedRouting' = dnsRuleCache'
            /\ cacheClean' = TRUE
            /\ dnsConfigMap' = newConfigs(st.dns_rules, now)
            /\ UNCHANGED refresh
       ELSE /\ UNCHANGED <<dnsRuleCache, committedRouting, dnsConfigMap>>
            /\ cacheClean' = (cacheClean /\ end = "rolledback")
            /\ refresh' = [r \in DOMAIN refresh |->
                             [refresh[r] EXCEPT !.clean = @ /\ end = "rolledback"]]
    /\ windows' = WindowsAfterLoad(windows, dnsConfigMap, dnsConfigMap')
    /\ rlLast' = NoCall
    /\ UNCHANGED <<storeFaults, backendCountMap, proxy>>
    /\ UNCHANGED filterVars
    /\ UNCHANGED <<clockVars, ipMap, rlCalls, windowStart>>
    /\ UNCHANGED <<loggerVars, logStoreVars, sweeperVars>>

\* The store operations of a rule handler at which a fault of the store makes
\* it return: in all of them Begin, a statement of the transaction and Commit;
\* in UpdateDNSRule also the queries for the response, which follow the Commit.
TxFaults == {"begin", "statement", "commit"}
UpdateFaults == TxFaults \cup {"response"}

\* How a handler whose transaction gave tx ends under fault ("none": no fault).
EndOf(tx, fault) ==
    IF fault \in TxFaults \/ ~tx.ok THEN "rolledback"
    ELSE IF fault = "response" THEN "unrefreshed"
    ELSE "committed"

\* CreateDNSRule with body json (with hostname and at least one backend).
CreateDNSRule(json, fault) ==
    /\ fault # "none" => storeFaults
    /\ LET tx == CreateTx(Store, BodyParser(json))
       IN  RuleHandlerEnds(tx.st, EndOf(tx, fault))

\* UpdateDNSRule of rule id with body json.
UpdateDNSRule(id, json, fault) ==
    /\ fault # "none" => storeFaults
    /\ \E r \in dns_rules : r.id = id
    /\ LET tx == UpdateTx(Store, id, BodyParser(json))
       IN  RuleHandlerEnds(tx.st, EndOf(tx, fault))

\* DeleteDNSRule of rule id.
DeleteDNSRule(id, fault) ==
    /\ fault # "none" => storeFaults
    /\ \E r \in dns_rules : r.id = id
    /\ LET tx == DeleteTx(Store, id)
       IN  RuleHandlerEnds(tx.st, EndOf(tx, fault))

\* UpdateDNSRule with a body of the rate limit fields, the retention and the
\* health check flag (0: quota, period or retention not carried), while the
\* store does not fail.
UpdateLimits(id, enabled, quota, period, retention, health) ==
    /\ ~storeFaults
    /\ UpdateDNSRule(id, [rate_limit_enabled |-> enabled, rate_limit_quota |-> quota,
                          rate_limit_period |-> period, log_retention_days |-> retention,
                          health_check_enabled |-> health], "none")

-----------------------------------------------------------------------------
(* database: the buffered request logger *)

batchSize == 2        \* LOG_BATCH_SIZE
maxRetries == 3
baseDelayMs == 100    \* baseDelay, in milliseconds
MaxSubmits == 3       \* LogRequest calls in one behaviour

\* Fractions of a second of time.Now(): none, or some.
SubSeconds == {0, 1}

\* Time.Format("2006-01-02 15:04:05"): the text of the whole seconds (texts of
\* one length compare as their seconds do).
Format(t) == t.sec

\* The entry LogRequest builds; n numbers the calls.
LogEntry(n, hostname, t) == [entry |-> n, hostname |-> hostname, Timestamp |-> t]

\* LogRequest: append under the lock; a buffer that reached the batch size
\* starts a flush in a goroutine of its own.
LogRequest(hostname, frac) ==
    /\ mainPc \notin Ended
    /\ submitted < MaxSubmits
    /\ submitted' = submitted + 1
    /\ logBuffer' = Append(logBuffer,
                           LogEntry(submitted + 1, hostname, [sec |-> now, frac |-> frac]))
    /\ asyncPending' = IF Len(logBuffer') >= batchSize THEN asyncPending + 1 ELSE asyncPending
    /\ UNCHANGED <<writes, loopPc, stopClosed, dbOpen, mainPc, signalAt, flushKinds>>
    /\ UNCHANGED <<storeVars, routingVars, filterVars>>
    /\ UNCHANGED <<clockVars, limiterVars, logStoreVars, sweeperVars>>

\* Mutant of BufferAfterFlush: the flush leaves the buffer as it was.
BufferAfterFlushKept(buffer) == buffer
\* The buffer a flush leaves behind: bl.buffer[:0].
BufferAfterFlush(buffer) == <<>>

\* The locked part of flush run by owner: an empty buffer ends the flush, else
\* the entries are copied out, the buffer is cleared and the copy goes to
\* writeToDatabase.
\* writeToDatabase, lines 132-136: the pause before the attempt of the given
\* number (from 0): none before the first, then baseDelay * 1<<(attempt-1).
RetryDelay(attempt) == IF attempt > 0 THEN baseDelayMs * Pow2(attempt - 1) ELSE 0

\* Mutant of GivesUp: one attempt more.
GivesUpLate(attempt) == attempt + 1 > maxRetries
\* writeToDatabase, line 131: the attempt of the given number was the last.
GivesUp(attempt) == attempt + 1 >= maxRetries

\* Mutant of TakeBatch: the flush leaves the buffer as it is.
TakeBatchNever(owner) == UNCHANGED <<logBuffer, writes>>

\* attempt: the failed attempts so far; delay: the pause before the next one.
TakeBatch(owner) ==
    IF logBuffer = <<>>
    THEN UNCHANGED <<logBuffer, writes>>
    ELSE /\ writes' = writes \cup {[owner |-> owner, entries |-> logBuffer, attempt |-> 0,
                                     delay |-> RetryDelay(0)]}
         /\ logBuffer' = BufferAfterFlush(logBuffer)

\* A goroutine started by LogRequest enters flush.
AsyncFlush ==
    /\ mainPc \notin Ended
    /\ asyncPending > 0
    /\ asyncPending' = asyncPending - 1
    /\ TakeBatch("async")
    /\ UNCHANGED <<loopPc, stopClosed, dbOpen, mainPc, submitted, signalAt, flushKinds>>
    /\ UNCHANGED <<storeVars, routingVars, filterVars>>
    /\ UNCHANGED <<clockVars, limiterVars, logStoreVars, sweeperVars>>

\* The loop of start(): the ticker fired.
TimerFlush ==
    /\ mainPc \notin Ended
    /\ loopPc = "select"
    /\ TakeBatch("timer")
    /\ loopPc' = IF logBuffer = <<>> THEN "select" ELSE "flush"
    /\ UNCHANGED <<asyncPending, stopClosed, dbOpen, mainPc, submitted, signalAt, flushKinds>>
    /\ UNCHANGED <<storeVars, routingVars, filterVars>>
    /\ UNCHANGED <<clockVars, limiterVars, logStoreVars, sweeperVars>>

\* The loop of start(): stopCh is closed; one final flush, then wg.Done.
FinalFlush ==
    /\ mainPc \notin Ended
    /\ loopPc = "select"
    /\ stopClosed
    /\ TakeBatch("final")
    /\ loopPc' = IF logBuffer = <<>> THEN "done" ELSE "final"
    /\ UNCHANGED <<asyncPending, stopClosed, dbOpen, mainPc, submitted, signalAt, flushKinds>>
    /\ UNCHANGED <<storeVars, routingVars, filterVars>>
    /\ UNCHANGED <<clockVars, limiterVars, logStoreVars, sweeperVars>>

\* The rows one committed batchInsert adds: ids in entry order, timestamps
\* formatted.
InsertedRows(entries, firstId) ==
    {[id |-> firstId + i - 1, entry |-> entries[i].entry, hostname |-> entries[i].hostname,
      timestamp |-> Format(entries[i].Timestamp)] : i \in 1..Len(entries)}

\* Where the owner of a flush goes on when writeToDatabase returns.
AfterWrite(owner) ==
    /\ loopPc' = CASE owner = "timer" -> "select"
                   [] owner = "final" -> "done"
                   [] OTHER -> loopPc
    /\ mainPc' = IF owner = "main" THEN "stop" ELSE mainPc

\* How one batchInsert of entries can end: committed, or failed after a number
\* of inserts: 0 when the handle is nil or Begin, Prepare or the first Exec
\* fails, Len(entries) when Commit fails.
Committed(entries) == [ok |-> TRUE, inserts |-> Len(entries)]
FailedAfter(k) == [ok |-> FALSE, inserts |-> k]
InsertOutcomes(entries) ==
    IF ~dbOpen THEN {FailedAfter(0)}
    ELSE IF storeFaults THEN {Committed(entries)} \cup {FailedAfter(k) : k \in 0..Len(entries)}
    ELSE {Committed(entries)}

\* Mutant of RowsAfterFailure: the inserts executed before the error stay.
RowsAfterFailureKept(entries, k, firstId) ==
    {row \in InsertedRows(entries, firstId) : row.id < firstId + k}
\* The rows a batchInsert leaves in the table when it fails after k inserts:
\* none, the deferred tx.Rollback undoes them.
RowsAfterFailure(entries, k, firstId) == {}

\* One attempt of writeToDatabase on the batch w, after the pause w.delay:
\* batchInsert commits the whole batch or fails; after maxRetries failed
\* attempts the batch is given up.
batchInsert(w) ==
    /\ mainPc \notin Ended
    /\ w \in writes
    /\ \E outcome \in InsertOutcomes(w.entries) :
          IF outcome.ok
          THEN /\ request_logs' = request_logs \cup InsertedRows(w.entries, nextLogId)
               /\ nextLogId' = nextLogId + Len(w.entries)
               /\ writes' = writes \ {w}
               /\ flushKinds' = flushKinds \cup {w.owner}
               /\ AfterWrite(w.owner)
          ELSE /\ request_logs' = request_logs \cup RowsAfterFailure(w.entries, outcome.inserts,
                                                                        nextLogId)
               /\ nextLogId' = nextLogId + Cardinality(RowsAfterFailure(w.entries, outcome.inserts,
                                                                        nextLogId))
               /\ UNCHANGED flushKinds
               /\ IF GivesUp(w.attempt)
                  THEN /\ writes' = writes \ {w}
                       /\ AfterWrite(w.owner)
                  ELSE /\ writes' = (writes \ {w}) \cup
                                       {[w EXCEPT !.attempt = @ + 1, !.delay = RetryDelay(w.attempt + 1)]}
                       /\ UNCHANGED <<loopPc, mainPc>>
    /\ UNCHANGED <<logBuffer, asyncPending, stopClosed, dbOpen, submitted, signalAt>>
    /\ UNCHANGED <<storeVars, routingVars, filterVars>>
    /\ UNCHANGED <<clockVars, limiterVars, sweeperVars>>

-----------------------------------------------------------------------------
(* main: graceful shutdown *)

\* The interrupt signal arrives.
Signal ==
    /\ mainPc = "running"
    /\ mainPc' = "flushnow"
    /\ signalAt' = submitted
    /\ UNCHANGED <<logBuffer, asyncPending, writes, loopPc, stopClosed, dbOpen, submitted,
                   flushKinds>>
    /\ UNCHANGED <<storeVars, routingVars, filterVars>>
    /\ UNCHANGED <<clockVars, limiterVars, logStoreVars, sweeperVars>>

\* database.FlushNow(): a flush run by main itself.
FlushNow ==
    /\ mainPc = "flushnow"
    /\ TakeBatch("main")
    /\ mainPc' = IF logBuffer = <<>> THEN "stop" ELSE "flushing"
    /\ UNCHANGED <<asyncPending, loopPc, stopClosed, dbOpen, submitted, signalAt, flushKinds>>
    /\ UNCHANGED <<storeVars, routingVars, filterVars>>
    /\ UNCHANGED <<clockVars, limiterVars, logStoreVars, sweeperVars>>

\* database.StopBufferedLogger(): close stopCh, then wait for the loop.
StopBufferedLogger ==
    /\ mainPc = "stop"
    /\ stopClosed' = TRUE
    /\ mainPc' = "wait"
    /\ UNCHANGED <<logBuffer, asyncPending, writes, loopPc, dbOpen, submitted, signalAt,
                   flushKinds>>
    /\ UNCHANGED <<storeVars, routingVars, filterVars>>
    /\ UNCHANGED <<clockVars, limiterVars, logStoreVars, sweeperVars>>

\* logger.wg.Wait() returns once the loop is done; then database.Close().
Close ==
    /\ mainPc = "wait"
    /\ loopPc = "done"
    /\ dbOpen' = FALSE
    /\ mainPc' = "closed"
    /\ UNCHANGED <<logBuffer, asyncPending, writes, loopPc, stopClosed, submitted, signalAt,
                   flushKinds>>
    /\ UNCHANGED <<storeVars, routingVars, filterVars>>
    /\ UNCHANGED <<clockVars, limiterVars, logStoreVars, sweeperVars>>

\* main returns: the process ends with whatever its goroutines were doing.
Exit ==
    /\ mainPc = "closed"
    /\ mainPc' = "exited"
    /\ UNCHANGED <<logBuffer, asyncPending, writes, loopPc, stopClosed, dbOpen, submitted,
                   signalAt, flushKinds>>
    /\ UNCHANGED <<storeVars, routingVars, filterVars>>
    /\ UNCHANGED <<clockVars, limiterVars, logStoreVars, sweeperVars>>

-----------------------------------------------------------------------------
(* main: the retention sweeper *)

defaultRetentionDays == 30
DaySecs == 24 * 3600
MaxRetentionDays == 2 \* log_retention_days ranges over 0..MaxRetentionDays
MaxSweepTicks == 2    \* seconds that pass in the retention specification

\* The clock of the retention specification starts here.
SweepStart == 40 * DaySecs

\* t.AddDate(0, 0, days)
AddDate(t, days) == [t EXCEPT !.sec = @ + days * DaySecs]

\* The days pruneOldLogs uses for a rule.
RetentionOf(retentionDays) ==
    IF retentionDays <= 0 THEN defaultRetentionDays ELSE retentionDays

\* cutoffDate for a rule when the sweeper reads the clock as t.
CutoffDate(retentionDays, t) == Format(AddDate(t, -RetentionOf(retentionDays)))

\* Mutant of TimestampBefore: timestamp <= ?
TimestampBeforeOrAt(timestamp, cutoff) == timestamp <= cutoff
\* The comparison of the DELETE, timestamp < ?, on formatted times.
TimestampBefore(timestamp, cutoff) == timestamp < cutoff

\* The rows DELETE ... WHERE hostname = ? AND timestamp < ? removes.
RowsToPrune(rows, hostname, cutoff) ==
    {row \in rows : row.hostname = hostname /\ TimestampBefore(row.timestamp, cutoff)}

NoSweep == [done |-> FALSE]

\* pruneOldLogs at time now + frac: an error of the rules query ends it; a rule
\* whose Scan or DELETE fails is skipped; rows without hostname get the default.
pruneOldLogs(frac, queryFailed, skipped, defaultFailed) ==
    LET t == [sec |-> now, frac |-> frac]
        perRule == UNION {RowsToPrune(request_logs, r.hostname, CutoffDate(r.log_retention_days, t)) :
                            r \in {x \in dns_rules : x.id \notin skipped}}
        fallback == IF defaultFailed THEN {}
                    ELSE RowsToPrune(request_logs, <<>>, CutoffDate(defaultRetentionDays, t))
    IN  /\ dbOpen
        /\ request_logs' = IF queryFailed THEN request_logs
                           ELSE request_logs \ (perRule \cup fallback)
        /\ lastSweep' = [done |-> TRUE, at |-> t, rules |-> dns_rules, before |-> request_logs,
                         after |-> request_logs', queryFailed |-> queryFailed,
                         skipped |-> {r.hostname : r \in {x \in dns_rules : x.id \in skipped}}]
        /\ UNCHANGED <<nextLogId, healthStatus, hsweep, rlsync, solo>>
        /\ UNCHANGED <<storeVars, routingVars, filterVars>>
        /\ UNCHANGED <<clockVars, limiterVars, loggerVars>>

-----------------------------------------------------------------------------
(* handlers: the health checker *)

\* The rows of the query of checkHealthForEnabledDNSRules: one per mapping of
\* a rule with health_check_enabled = 1 to a backend with isActive = 1.
HealthRows ==
    {<<r.id, b.url>> : <<r, b>> \in
        {x \in dns_rules \X backends :
            /\ <<x[1].id, x[2].id>> \in dns_backend_map
            /\ x[1].health_check_enabled
            /\ x[2].isActive}}

\* The map after the deletion loop: the keys that are in urlMap stay.
EvictedNone(status, urlMap) == status
Evicted(status, urlMap) == [u \in DOMAIN status \cap urlMap |-> status[u]]

\* The health checker asleep between two sweeps, none made yet.
SleepingSweep == [pc |-> "sleep", rows |-> {}, pending |-> {}, outcome |-> "none",
                  evicted |-> {}, rules |-> {}, backends |-> {}, map |-> {}]

\* The query of the sweep; an error ends the sweep before anything is evicted.
HealthQuery(failed) ==
    /\ mainPc \notin Ended
    /\ dbOpen
    /\ hsweep.pc = "sleep"
    /\ failed => storeFaults
    /\ hsweep' = IF failed
                 THEN [hsweep EXCEPT !.outcome = "failed"]
                 ELSE [pc |-> "evict", rows |-> HealthRows, pending |-> {},
                       outcome |-> "running", evicted |-> {}, rules |-> dns_rules,
                       backends |-> backends, map |-> dns_backend_map]
    /\ UNCHANGED <<healthStatus, lastSweep, rlsync, solo>>
    /\ UNCHANGED <<storeVars, routingVars, filterVars>>
    /\ UNCHANGED <<clockVars, limiterVars, loggerVars, logStoreVars>>

\* The deletion loop under healthStatusLock, then one goroutine per row.
HealthEvict ==
    /\ hsweep.pc = "evict"
    /\ healthStatus' = Evicted(healthStatus, {row[2] : row \in hsweep.rows})
    /\ hsweep' = [hsweep EXCEPT !.pc = "probe", !.pending = hsweep.rows,
                                !.evicted = DOMAIN healthStatus \ DOMAIN healthStatus']
    /\ UNCHANGED <<lastSweep, rlsync, solo>>
    /\ UNCHANGED <<storeVars, routingVars, filterVars>>
    /\ UNCHANGED <<clockVars, limiterVars, loggerVars, logStoreVars>>

\* One goroutine of the sweep: checkBackendHealth(url) answered isHealthy.
checkBackendHealth(row, isHealthy) ==
    /\ hsweep.pc = "probe"
    /\ row \in hsweep.pending
    /\ healthStatus' = [u \in DOMAIN healthStatus \cup {row[2]} |->
                            IF u = row[2] THEN isHealthy ELSE healthStatus[u]]
    /\ hsweep' = [hsweep EXCEPT !.pending = @ \ {row}]
    /\ UNCHANGED <<lastSweep, rlsync, solo>>
    /\ UNCHANGED <<storeVars, routingVars, filterVars>>
    /\ UNCHANGED <<clockVars, limiterVars, loggerVars, logStoreVars>>

\* wg.Wait() returns: the sweep is complete, the checker sleeps.
HealthWait ==
    /\ hsweep.pc = "probe"
    /\ hsweep.pending = {}
    /\ hsweep' = [hsweep EXCEPT !.pc = "sleep", !.outcome = "completed"]
    /\ UNCHANGED <<healthStatus, lastSweep, rlsync, solo>>
    /\ UNCHANGED <<storeVars, routingVars, filterVars>>
    /\ UNCHANGED <<clockVars, limiterVars, loggerVars, logStoreVars>>

-----------------------------------------------------------------------------
(* handlers: ResetDatabase, and the store operations of the data plane while
   the handle is closed *)

\* ResetDatabase, lines 149-151: database.Close() closes the handle and sets
\* database.DB to nil.
ResetClose ==
    /\ mainPc = "running"
    /\ dbOpen
    /\ adminOps < MaxAdminOps
    /\ adminOps' = adminOps + 1
    /\ dbOpen' = FALSE
    /\ UNCHANGED <<dns_rules, backends, dns_backend_map, sqlite_sequence, storeFaults>>
    /\ UNCHANGED <<routingVars, filterVars>>
    /\ UNCHANGED <<logBuffer, asyncPending, writes, loopPc, stopClosed, mainPc, submitted, signalAt,
                   flushKinds>>
    /\ UNCHANGED <<clockVars, limiterVars, logStoreVars, sweeperVars>>

\* ResetDatabase, lines 153-197: wiped = FALSE is one of the error returns
\* (the handle is reopened on the old file and nothing else is done); wiped =
\* TRUE is the new empty store, followed by RefreshDNSRulesCache and
\* RefreshRateLimiterConfigs.
ResetReopen(wiped) ==
    /\ mainPc = "running"
    /\ ~dbOpen
    /\ dbOpen' = TRUE
    /\ IF wiped
       THEN /\ dns_rules' = {}
            /\ backends' = {}
            /\ dns_backend_map' = {}
            /\ sqlite_sequence' = [dns_rules |-> 0, backends |-> 0]
            /\ filter_rules' = {}
            /\ nextFilterId' = 1
            /\ request_logs' = {}
            /\ nextLogId' = 1
            /\ dnsRuleCache' = EmptyCache
            /\ committedRouting' = EmptyCache
            /\ cacheClean' = TRUE
            /\ refresh' = [r \in DOMAIN refresh |-> [refresh[r] EXCEPT !.clean = FALSE]]
            /\ dnsConfigMap' = newConfigs({}, now)
            /\ windows' = WindowsAfterLoad(windows, dnsConfigMap, dnsConfigMap')
            /\ rlLast' = NoCall
       ELSE UNCHANGED <<dns_rules, backends, dns_backend_map, sqlite_sequence, filter_rules, nextFilterId,
                        request_logs, nextLogId, dnsRuleCache, committedRouting, cacheClean,
                        refresh, dnsConfigMap, windows, rlLast>>
    /\ UNCHANGED <<storeFaults, adminOps, backendCountMap, proxy>>
    /\ UNCHANGED <<filterRuleCache, frefresh, filter, committedFilter>>
    /\ UNCHANGED <<logBuffer, asyncPending, writes, loopPc, stopClosed, mainPc, submitted, signalAt,
                   flushKinds>>
    /\ UNCHANGED <<clockVars, ipMap, rlCalls, windowStart, sweeperVars>>

\* The operations of the data plane that use database.DB without testing it.
UncheckedStoreOps ==
    {"refreshCache", "refreshFilterCache", "loadDNSConfigs", "checkHealthForEnabledDNSRules",
     "pruneOldLogs", "logFilteredRequest"}

\* What an unsynchronized read of database.DB gives once Close has run: nil,
\* or the pointer to the closed handle read before.
HandleReads == {"nil", "stale"}

\* One of these operations runs while the handle is closed.  On the closed
\* handle Query and Exec return an error, which the operation logs before it
\* returns; on nil they dereference a nil pointer and the panic ends the
\* process.
QueryOnClosedHandle(op, sees) ==
    /\ mainPc \notin Ended
    /\ ~dbOpen
    /\ mainPc' = IF sees = "nil" THEN "panicked" ELSE mainPc
    /\ UNCHANGED <<logBuffer, asyncPending, writes, loopPc, stopClosed, dbOpen, submitted, signalAt,
                   flushKinds>>
    /\ UNCHANGED <<storeVars, routingVars, filterVars>>
    /\ UNCHANGED <<clockVars, limiterVars, logStoreVars, sweeperVars>>

-----------------------------------------------------------------------------
(* Initial states of the services *)

\* NewRateLimiter at time t: no client seen, the configs loaded from the store.
InitLimiter(t) ==
    /\ now = t
    /\ dnsConfigMap = newConfigs(dns_rules, t)
    /\ ipMap = EmptyMap
    /\ rlCalls = 0
    /\ windows = {}
    /\ windowStart = EmptyMap
    /\ rlLast = NoCall

\* InitBufferedLogger on an open database: empty buffer, the loop waiting.
InitLogger ==
    /\ logBuffer = <<>>
    /\ asyncPending = 0
    /\ writes = {}
    /\ loopPc = "select"
    /\ stopClosed = FALSE
    /\ dbOpen = TRUE
    /\ mainPc = "running"
    /\ submitted = 0
    /\ signalAt = 0
    /\ flushKinds = {}

\* The goroutines of the rate limiter: the middleware calls, the cleanup
\* goroutine and the goroutine of refreshDNSConfigs, which calls loadDNSConfigs.
NumLimiterCalls == 2  \* concurrent calls of the middleware
LimiterCalls == 1..NumLimiterCalls
CleanupThread == NumLimiterCalls + 1
LoaderThreads == {NumLimiterCalls + 2}
LimiterThreads == LimiterCalls \cup {CleanupThread} \cup LoaderThreads

\* Both locks free (holder 0), every goroutine outside the limiter's code.
NoLocksHeld ==
    [ipMapLock |-> 0, cfgWriter |-> 0, cfgReaders |-> {}, cfgPending |-> {},
     pc |-> [t \in LimiterThreads |-> "idle"],
     req |-> [h \in LimiterCalls |-> [ip |-> <<>>, hostname |-> <<>>, cfgs |-> <<>>]],
     unlocks |-> [h \in LimiterCalls |-> 0],
     todo |-> {}, loaded |-> [l \in LoaderThreads |-> <<>>]]

\* The request_logs table holding rows, no sweep made yet.
InitLogStore(rows) ==
    /\ request_logs = rows
    /\ nextLogId = Cardinality(rows) + 1
    /\ lastSweep = NoSweep
    /\ healthStatus = EmptyMap
    /\ hsweep = SleepingSweep
    /\ rlsync = NoLocksHeld
    /\ solo = NoSolo

InitServices ==
    /\ InitLimiter(0)
    /\ InitLogger
    /\ InitLogStore({})

-----------------------------------------------------------------------------
(* Routing specification *)

HostRule(id, hostname) ==
    [id |-> id, hostname |-> hostname, rate_limit_enabled |-> FALSE, rate_limit_quota |-> 100,
     rate_limit_period |-> 60, log_retention_days |-> 30, health_check_enabled |-> FALSE]

ZeroCounts == [u \in Urls |-> 0]

\* The store holds host rule 1 (a.t) mapped to every backend and host rule 2
\* (b.t) mapped to backend 1; the cache is what the start-up refresh of
\* Initialize built from it.
InitRouting ==
    /\ dns_rules = {HostRule(1, HostA), HostRule(2, HostB)}
    /\ backends = {[id |-> id, url |-> UrlOf(id), weight |-> 1, isActive |-> TRUE] : id \in BackendIds}
    /\ dns_backend_map = {<<1, id>> : id \in BackendIds} \cup {<<2, 1>>}
    /\ sqlite_sequence = SequenceOf(dns_rules, backends)
    /\ storeFaults \in BOOLEAN
    /\ dnsRuleCache = BuildFrom(QueryDNSRules, EmptyCache)
    /\ backendCountMap = ZeroCounts
    /\ refresh = [r \in Refreshers |-> IdleRefresh]
    /\ proxy = [p \in Handlers |-> IdleProxy]
    /\ committedRouting = dnsRuleCache
    /\ cacheClean = TRUE
    /\ adminOps = 0
    /\ InitFilter
    /\ InitServices

vars == <<storeVars, routingVars, filterVars, serviceVars>>

NextRouting ==
    \/ \E r \in Refreshers : RefreshQuery(r)
    \/ \E r \in Refreshers : RefreshRule(r)
    \/ \E r \in Refreshers : RefreshSwap(r)
    \/ \E p \in Handlers, h \in Hostnames : ProxyLookup(p, h)
    \/ \E p \in Handlers : ProxySelect(p)
    \/ \E p \in Handlers, outcome \in UpstreamOutcomes : ProxyForward(p, outcome)
    \/ \E p \in Handlers : ProxyReturn(p)
    \/ \E id \in BackendIds, w \in 0..MaxWeight, a \in BOOLEAN : UpdateBackend(id, w, a)
    \/ \E id \in BackendIds : DeleteBackend(id)

SpecRouting == InitRouting /\ [][NextRouting]_vars

NextFilter ==
    \/ FilterRefreshQuery
    \/ FilterRefreshSwap
    \/ \E q \in FilterCalls, req \in Requests : FilterCapture(q, req)
    \/ \E q \in FilterCalls : FilterStep(q)
    \/ \E q \in FilterCalls : FilterReturn(q)
    \/ \E b \in RuleBodies, pr \in 0..MaxPriority, a \in BOOLEAN : CreateFilterRule(b, pr, a)
    \/ \E id \in 1..MaxFilterRules, b \in RuleBodies, pr \in 0..MaxPriority, a \in BOOLEAN :
            UpdateFilterRule(id, b, pr, a)
    \/ \E id \in 1..MaxFilterRules : DeleteFilterRule(id)
    \/ \E id \in 1..MaxFilterRules : ToggleFilterRule(id)

\* The filter engine alone: the routing side stays as built at start-up.
SpecFilter == InitRouting /\ [][NextFilter]_vars

\* Both caches side by side, with a store that does not fail and one admin
\* mutation left to make.
InitCaches ==
    /\ dns_rules = {HostRule(1, HostA), HostRule(2, HostB)}
    /\ backends = {[id |-> id, url |-> UrlOf(id), weight |-> 1, isActive |-> TRUE] : id \in BackendIds}
    /\ dns_backend_map = {<<1, id>> : id \in BackendIds} \cup {<<2, 1>>}
    /\ sqlite_sequence = SequenceOf(dns_rules, backends)
    /\ storeFaults = FALSE
    /\ dnsRuleCache = BuildFrom(QueryDNSRules, EmptyCache)
    /\ backendCountMap = ZeroCounts
    /\ refresh = [r \in Refreshers |-> IdleRefresh]
    /\ proxy = [p \in Handlers |-> IdleProxy]
    /\ committedRouting = dnsRuleCache
    /\ cacheClean = TRUE
    /\ adminOps = MaxAdminOps - 1
    /\ InitFilter
    /\ InitServices

SpecCaches == InitCaches /\ [][NextRouting \/ NextFilter]_vars

-----------------------------------------------------------------------------
(* Selection specification: a long run of sequential selections for one host *)

\* One more of a sequence of selectBackend calls on the cached list of host.
SelectUpTo(host, limit) ==
    /\ host \in DOMAIN dnsRuleCache
    /\ SumOver(backendCountMap, Urls) < limit
    /\ backendCountMap' = CountsAfterSelect(dnsRuleCache[host], backendCountMap)
    /\ UNCHANGED <<storeVars, dnsRuleCache, refresh, proxy, committedRouting, cacheClean>>
    /\ UNCHANGED <<filterVars, serviceVars>>

SelectNext(host) == SelectUpTo(host, LongRun)

\* Every backend is active, with any weights up to MaxWeight + 1; counters start
\* at zero and nothing refreshes or mutates the store.
InitSelect ==
    /\ dns_rules = {HostRule(1, HostA)}
    /\ \E w \in [BackendIds -> 1..(MaxWeight + 1)] :
          backends = {[id |-> id, url |-> UrlOf(id), weight |-> w[id], isActive |-> TRUE] :
                        id \in BackendIds}
    /\ dns_backend_map = {<<1, id>> : id \in BackendIds}
    /\ sqlite_sequence = SequenceOf(dns_rules, backends)
    /\ storeFaults = FALSE
    /\ dnsRuleCache = BuildFrom(QueryDNSRules, EmptyCache)
    /\ backendCountMap = ZeroCounts
    /\ refresh = [r \in Refreshers |-> IdleRefresh]
    /\ proxy = [p \in Handlers |-> IdleProxy]
    /\ committedRouting = dnsRuleCache
    /\ cacheClean = TRUE
    /\ adminOps = 0
    /\ InitFilter
    /\ InitServices

SpecSelect == InitSelect /\ [][SelectNext(HostA)]_vars

\* Selections for a host with every backend and for a host with one backend
\* only, in any order; the counters are shared through the backends' URLs.
MaxPicks == 8         \* selections made in the pick specification

\* The start of the pick specification with the proxyHandler calls of handlers.
InitPickOf(handlers) ==
    /\ dns_rules = {HostRule(1, HostA), HostRule(2, HostB)}
    /\ \E w \in [BackendIds -> 1..(MaxWeight + 1)] :
          backends = {[id |-> id, url |-> UrlOf(id), weight |-> w[id], isActive |-> TRUE] :
                        id \in BackendIds}
    /\ dns_backend_map = {<<1, id>> : id \in BackendIds} \cup {<<2, 1>>}
    /\ sqlite_sequence = SequenceOf(dns_rules, backends)
    /\ storeFaults = FALSE
    /\ dnsRuleCache = BuildFrom(QueryDNSRules, EmptyCache)
    /\ backendCountMap = ZeroCounts
    /\ refresh = [r \in Refreshers |-> IdleRefresh]
    /\ proxy = [p \in handlers |-> IdleProxy]
    /\ committedRouting = dnsRuleCache
    /\ cacheClean = TRUE
    /\ adminOps = 0
    /\ InitFilter
    /\ InitServices

InitPick == InitPickOf(Handlers)

SpecPick == InitPick /\ [][\E h \in Hostnames : SelectUpTo(h, MaxPicks)]_vars

-----------------------------------------------------------------------------
(* Request path specification: the proxy listener with the filter engine and
   the rate limiter beside it *)

NextProxy ==
    \/ \E p \in Handlers, h \in Hostnames \cup {UnknownHost} : ProxyLookup(p, h)
    \/ \E p \in Handlers : ProxySelect(p)
    \/ \E p \in Handlers, outcome \in UpstreamOutcomes : ProxyForward(p, outcome)
    \/ \E p \in Handlers : ProxyReturn(p)
    \/ \E q \in FilterCalls, h \in Hostnames \cup {UnknownHost} : FilterCapture(q, ArrivingRequest(h))
    \/ \E q \in FilterCalls : FilterStep(q)
    \/ \E q \in FilterCalls : FilterReturn(q)
    \/ \E ip \in ClientIPs, h \in Hostnames \cup {UnknownHost} : RateLimiterMiddleware(ip, h, RootPath)

-----------------------------------------------------------------------------
(* Rate limiter specification *)

\* Host a.t has an enabled config with the long period and a quota up to
\* MaxQuota, host b.t a disabled one; the limiter has loaded them and has seen
\* no request yet.
InitRL ==
    /\ \E q \in 1..MaxQuota :
          dns_rules = {[HostRule(1, HostA) EXCEPT !.rate_limit_enabled = TRUE,
                                                  !.rate_limit_quota = q,
                                                  !.rate_limit_period = LongPeriod],
                       HostRule(2, HostB)}
    /\ backends = {[id |-> id, url |-> UrlOf(id), weight |-> 1, isActive |-> TRUE] : id \in BackendIds}
    /\ dns_backend_map = {<<1, id>> : id \in BackendIds} \cup {<<2, 1>>}
    /\ sqlite_sequence = SequenceOf(dns_rules, backends)
    /\ storeFaults \in BOOLEAN
    /\ dnsRuleCache = BuildFrom(QueryDNSRules, EmptyCache)
    /\ backendCountMap = ZeroCounts
    /\ refresh = [r \in Refreshers |-> IdleRefresh]
    /\ proxy = [p \in Handlers |-> IdleProxy]
    /\ committedRouting = dnsRuleCache
    /\ cacheClean = TRUE
    /\ adminOps = MaxAdminOps - 1
    /\ InitFilter
    /\ InitServices

-----------------------------------------------------------------------------
(* Burst specification: one client sends more requests than the default quota
   to a host without config and to a host whose config is disabled *)

BurstCalls == defaultMaxRequests + 1
BurstClient == <<"198.51.100.", 1>>

BurstRequest(hostname) ==
    /\ rlCalls < BurstCalls
    /\ Middleware(BurstClient, hostname, RootPath)

NextBurst ==
    \/ \E h \in {HostB, UnknownHost} : BurstRequest(h)
    \/ Tick(TickSecs, TickSecs)

\* The start of the rate limiter specification with a store that works.
InitBurst ==
    /\ InitRL
    /\ ~storeFaults
    /\ \A r \in dns_rules : r.hostname = HostA => r.rate_limit_quota = 1

SpecBurst == InitBurst /\ [][NextBurst]_vars

\* The request path starts where the rate limiter specification does.
SpecProxy == InitRL /\ [][NextProxy]_vars

\* Requests with and without the forwarding headers, from a peer address with
\* a port.
PeerAddr == <<"9", ".", "9", ":", "8">>
ForwardedFor == {<<>>, <<"1", ".", "1", ",", " ", "2", ".", "2">>}
RealIP == {<<>>, <<"3", ".", "3">>}
HeaderRequests ==
    {[remoteAddr |-> PeerAddr, xff |-> f, xri |-> x, host |-> h, path |-> RootPath] :
        f \in ForwardedFor, x \in RealIP, h \in Hostnames \cup {UnknownHost}}

NextClientIP ==
    \/ \E p \in Handlers, req \in HeaderRequests : ProxyAccept(p, req)
    \/ \E p \in Handlers : ProxySelect(p)
    \/ \E p \in Handlers, outcome \in UpstreamOutcomes : ProxyForward(p, outcome)
    \/ \E p \in Handlers : ProxyReturn(p)
    \/ \E q \in FilterCalls, req \in HeaderRequests : FilterCapture(q, req)
    \/ \E q \in FilterCalls : FilterStep(q)
    \/ \E q \in FilterCalls : FilterReturn(q)

SpecClientIP == InitCaches /\ [][NextClientIP]_vars

-----------------------------------------------------------------------------
(* Match specification: one active rule with any bounded match value, applied
   to requests with any bounded subject *)

MaxStrLen == 3        \* length of the generated match values and subjects

StringsOver(alphabet) == UNION {[1..k -> alphabet] : k \in 0..MaxStrLen}

\* CIDR blocks and addresses, well-formed and not.
CidrValues ==
    { <<"1", "0", ".", "0", ".", "0", ".", "0", "/", "8">>,
      <<"1", "0", ".", "1", ".", "2", ".", "0", "/", "2", "3">>,
      <<"1", "0", ".", "1", ".", "2", ".", "0", "/", "3", "3">>,
      <<"1", "0", ".", "1", "/", "8">> }
AddrSubjects ==
    { <<"1", "0", ".", "1", ".", "2", ".", "3">>,
      <<"1", "0", ".", "1", ".", "3", ".", "9">>,
      <<"1", "0", ".", "1", ".", "4", ".", "1">>,
      <<"1", "9", "2", ".", "1", "6", "8", ".", "1", ".", "1">>,
      <<"1", "0", ".", "1", ".", "2">> }

MatchValues == StringsOver({"a", "b", "*", "/"}) \cup CidrValues
Subjects == StringsOver({"a", "b", "/"}) \cup AddrSubjects
MatchTypes == {"ip", "path", "dns"}

\* A rule of the given kind and match value; its action is of no concern here.
MatchBody(kind, value) ==
    [match_type |-> kind, match_value |-> value,
     action_type |-> "bad_request", action_value |-> "", status_code |-> 0]

\* A request whose client IP (sent as X-Real-IP), host and path are all subject.
SubjectRequest(subject) ==
    [remoteAddr |-> PeerAddr, xff |-> <<>>, xri |-> subject, host |-> subject, path |-> subject]

InitMatch ==
    /\ dns_rules = {HostRule(1, HostA), HostRule(2, HostB)}
    /\ backends = {[id |-> id, url |-> UrlOf(id), weight |-> 1, isActive |-> TRUE] : id \in BackendIds}
    /\ dns_backend_map = {<<1, id>> : id \in BackendIds} \cup {<<2, 1>>}
    /\ sqlite_sequence = SequenceOf(dns_rules, backends)
    /\ storeFaults = FALSE
    /\ dnsRuleCache = BuildFrom(QueryDNSRules, EmptyCache)
    /\ backendCountMap = ZeroCounts
    /\ refresh = [r \in Refreshers |-> IdleRefresh]
    /\ proxy = [p \in Handlers |-> IdleProxy]
    /\ committedRouting = dnsRuleCache
    /\ cacheClean = TRUE
    /\ adminOps = MaxAdminOps
    /\ \E kind \in MatchTypes, value \in MatchValues : InitFilterWith(MatchBody(kind, value))
    /\ InitServices

NextMatch ==
    \/ \E q \in FilterCalls, subject \in Subjects : FilterCapture(q, SubjectRequest(subject))
    \/ \E q \in FilterCalls : FilterStep(q)
    \/ \E q \in FilterCalls : FilterReturn(q)

SpecMatch == InitMatch /\ [][NextMatch]_vars

-----------------------------------------------------------------------------
(* Action specification: an admin creates a rule that matches every path, or
   rewrites the first rule into one, and requests are filtered by it *)

ActionTypes == {"redirect", "bad_request", "too_many", "custom"}
ActionValues == {"", "https://new"}
\* 0: the request body names no status code.
StatusCodes == {0, 451}

ActionBodies ==
    {[match_type |-> "path", match_value |-> Star, action_type |-> t, action_value |-> v,
      status_code |-> c] : t \in ActionTypes, v \in ActionValues, c \in StatusCodes}

NextAction ==
    \/ \E b \in ActionBodies : CreateFilterRule(b, MaxPriority, TRUE)
    \/ \E b \in ActionBodies : UpdateFilterRule(1, b, MaxPriority, TRUE)
    \/ FilterRefreshQuery
    \/ FilterRefreshSwap
    \/ \E q \in FilterCalls : FilterCapture(q, ArrivingRequest(HostA))
    \/ \E q \in FilterCalls : FilterStep(q)
    \/ \E q \in FilterCalls : FilterReturn(q)

SpecAction == InitCaches /\ [][NextAction]_vars

-----------------------------------------------------------------------------
(* Race specification: RefreshDNSRulesCache called by one caller more than in
   the other specifications, next to an admin who changes a backend *)

RaceRefreshers == 1..(NumRefreshers + 1)

InitRace ==
    /\ dns_rules = {HostRule(1, HostA), HostRule(2, HostB)}
    /\ backends = {[id |-> id, url |-> UrlOf(id), weight |-> 1, isActive |-> TRUE] : id \in BackendIds}
    /\ dns_backend_map = {<<1, id>> : id \in BackendIds} \cup {<<2, 1>>}
    /\ sqlite_sequence = SequenceOf(dns_rules, backends)
    /\ storeFaults = FALSE
    /\ dnsRuleCache = BuildFrom(QueryDNSRules, EmptyCache)
    /\ backendCountMap = ZeroCounts
    /\ refresh = [r \in RaceRefreshers |-> IdleRefresh]
    /\ proxy = [p \in Handlers |-> IdleProxy]
    /\ committedRouting = dnsRuleCache
    /\ cacheClean = TRUE
    /\ adminOps = MaxAdminOps - 1
    /\ InitFilter
    /\ InitServices

NextRace ==
    \/ \E r \in RaceRefreshers : RefreshQuery(r)
    \/ \E r \in RaceRefreshers : RefreshRule(r)
    \/ \E r \in RaceRefreshers : RefreshSwap(r)
    \/ \E id \in BackendIds, w \in 0..MaxWeight, a \in BOOLEAN : UpdateBackend(id, w, a)
    \/ \E id \in BackendIds : DeleteBackend(id)

SpecRace == InitRace /\ [][NextRace]_vars

NextRL ==
    \/ \E ip \in ClientIPs, h \in Hostnames \cup {UnknownHost}, path \in {RootPath, AdminPath} :
            RateLimiterMiddleware(ip, h, path)
    \/ cleanup
    \/ loadDNSConfigs
    \/ \E id \in 1..2, enabled \in BOOLEAN, q \in 0..MaxQuota, p \in {0} \cup Periods :
            UpdateLimits(id, enabled, q, p, 0, FALSE)
    \/ Tick(TickSecs, MaxTime)

SpecRL == InitRL /\ [][NextRL]_vars

-----------------------------------------------------------------------------
(* Logger specifications *)

NextLog ==
    \/ \E h \in Hostnames, frac \in SubSeconds : LogRequest(h, frac)
    \/ AsyncFlush
    \/ TimerFlush
    \/ \E w \in writes : batchInsert(w)

\* The logger at work on a store that does not fail, the process running on.
SpecLog == InitCaches /\ [][NextLog]_vars

\* The logger over a store whose inserts may fail.
InitRetry ==
    /\ dns_rules = {HostRule(1, HostA), HostRule(2, HostB)}
    /\ backends = {[id |-> id, url |-> UrlOf(id), weight |-> 1, isActive |-> TRUE] : id \in BackendIds}
    /\ dns_backend_map = {<<1, id>> : id \in BackendIds} \cup {<<2, 1>>}
    /\ sqlite_sequence = SequenceOf(dns_rules, backends)
    /\ storeFaults = TRUE
    /\ dnsRuleCache = BuildFrom(QueryDNSRules, EmptyCache)
    /\ backendCountMap = ZeroCounts
    /\ refresh = [r \in Refreshers |-> IdleRefresh]
    /\ proxy = [p \in Handlers |-> IdleProxy]
    /\ committedRouting = dnsRuleCache
    /\ cacheClean = TRUE
    /\ adminOps = MaxAdminOps - 1
    /\ InitFilter
    /\ InitServices

SpecRetry == InitRetry /\ [][NextLog]_vars

\* The running logger with its scheduling: the ticker of start() fires every
\* flush interval for as long as the loop runs, a goroutine started by
\* LogRequest gets to run, and an attempt of writeToDatabase comes to its end.
SpecLogLive ==
    /\ InitRetry
    /\ [][NextLog]_vars
    /\ WF_vars(TimerFlush)
    /\ WF_vars(AsyncFlush)
    /\ WF_vars(\E w \in writes : batchInsert(w))

NextShutdown ==
    \/ NextLog
    \/ FinalFlush
    \/ Signal
    \/ FlushNow
    \/ StopBufferedLogger
    \/ Close
    \/ Exit

\* The same with the interrupt signal arriving at any moment.
SpecShutdown == InitCaches /\ [][NextShutdown]_vars

\* The shutdown with the rest of the process beside it: the proxy listener
\* (requests for a host that is not configured), the loops of the rate limiter
\* and the other operations that query the store.
NextStop ==
    \/ NextShutdown
    \/ \E p \in Handlers : ProxyLookup(p, UnknownHost)
    \/ \E p \in Handlers : ProxyReturn(p)
    \/ loadDNSConfigs
    \/ cleanup
    \/ \E op \in UncheckedStoreOps, sees \in HandleReads : QueryOnClosedHandle(op, sees)

SpecStop == InitCaches /\ [][NextStop]_vars

-----------------------------------------------------------------------------
(* Reset specification: the data plane at work while an admin resets the
   database *)

NextReset ==
    \/ ResetClose
    \/ \E wiped \in BOOLEAN : ResetReopen(wiped)
    \/ \E op \in UncheckedStoreOps, sees \in HandleReads : QueryOnClosedHandle(op, sees)
    \/ \E r \in Refreshers : RefreshQuery(r)
    \/ \E r \in Refreshers : RefreshRule(r)
    \/ \E r \in Refreshers : RefreshSwap(r)
    \/ loadDNSConfigs
    \/ NextLog

SpecReset == InitCaches /\ [][NextReset]_vars

-----------------------------------------------------------------------------
(* Retention specification *)

\* The hosts of the rows in the log: the hosts with a rule, no host, and a host
\* no rule is configured for.
LogHosts == <<HostA, HostB, <<>>, UnknownHost>>

\* The timestamps of the rows written by earlier runs: around one day and
\* around the default retention before SweepStart.
OldStamps ==
    <<SweepStart - defaultRetentionDays * DaySecs - 1, SweepStart - defaultRetentionDays * DaySecs,
      SweepStart - defaultRetentionDays * DaySecs + 1,
      SweepStart - DaySecs - 1, SweepStart - DaySecs, SweepStart - DaySecs + 1>>

OldRows ==
    {[id |-> (hi - 1) * Len(OldStamps) + si, entry |-> 0, hostname |-> LogHosts[hi],
      timestamp |-> OldStamps[si]] : hi \in 1..Len(LogHosts), si \in 1..Len(OldStamps)}

\* Both host rules carry any retention up to MaxRetentionDays (0 = not set, as
\* a restored database may hold); the log holds the old rows.
InitRetention ==
    /\ \E d \in [1..2 -> 0..MaxRetentionDays] :
          dns_rules = {[HostRule(1, HostA) EXCEPT !.log_retention_days = d[1]],
                       [HostRule(2, HostB) EXCEPT !.log_retention_days = d[2]]}
    /\ backends = {[id |-> id, url |-> UrlOf(id), weight |-> 1, isActive |-> TRUE] : id \in BackendIds}
    /\ dns_backend_map = {<<1, id>> : id \in BackendIds} \cup {<<2, 1>>}
    /\ sqlite_sequence = SequenceOf(dns_rules, backends)
    /\ storeFaults \in BOOLEAN
    /\ dnsRuleCache = BuildFrom(QueryDNSRules, EmptyCache)
    /\ backendCountMap = ZeroCounts
    /\ refresh = [r \in Refreshers |-> IdleRefresh]
    /\ proxy = [p \in Handlers |-> IdleProxy]
    /\ committedRouting = dnsRuleCache
    /\ cacheClean = TRUE
    /\ adminOps = MaxAdminOps - 1
    /\ InitFilter
    /\ InitLimiter(SweepStart)
    /\ InitLogger
    /\ InitLogStore(OldRows)

NextRetention ==
    \/ \E frac \in SubSeconds,
          queryFailed \in (IF storeFaults THEN BOOLEAN ELSE {FALSE}),
          skipped \in (IF storeFaults THEN SUBSET {r.id : r \in dns_rules} ELSE {{}}),
          defaultFailed \in (IF storeFaults THEN BOOLEAN ELSE {FALSE}) :
            pruneOldLogs(frac, queryFailed, skipped, defaultFailed)
    \/ \E id \in 1..2, d \in 1..MaxRetentionDays : UpdateLimits(id, FALSE, 0, 0, d, FALSE)
    \/ Tick(1, SweepStart + MaxSweepTicks)

SpecRetention == InitRetention /\ [][NextRetention]_vars

-----------------------------------------------------------------------------
(* Claims *)

\* The decision of a whole evaluation of req against the rule list rules: the
\* first rule of the list that matches, or Pass.
Decide(rules, req) ==
    LET hits == {i \in 1..Len(rules) :
                    matchesRule(rules[i], getClientIP(req), req.host, req.path)}
    IN IF hits = {} THEN Pass ELSE FilteredBy(rules[MinOfSet(hits)])

\* C1: every read of the routing cache (the lookup of proxyHandler) and of the
\* filter cache (the copy FilterRequest makes) returns the content of one committed
\* snapshot, the one that was live at the read, and a filter evaluation in flight
\* across a swap finishes against the list it captured.
C1_SnapshotReads ==
    /\ \A p \in Handlers :
          proxy[p].pc # "idle" =>
              [found |-> proxy[p].found, backends |-> proxy[p].backends] = proxy[p].committed
    /\ \A q \in FilterCalls :
          /\ filter[q].pc # "idle" => filter[q].rules = filter[q].committed
          /\ filter[q].pc = "done" => filter[q].result = Decide(filter[q].committed, filter[q].req)

\* C1 witness: an evaluation has finished after a swap replaced the list it had
\* captured, and the live list would have decided its request otherwise.
C1_Witness ==
    \E q \in FilterCalls :
        /\ filter[q].pc = "done"
        /\ filter[q].rules # filterRuleCache
        /\ filter[q].result # Decide(filterRuleCache, filter[q].req)

\* The cached rules of call q that match its request.
MatchingRules(q) ==
    {f \in Range(filter[q].rules) :
        matchesRule(f, getClientIP(filter[q].req), filter[q].req.host, filter[q].req.path)}

\* C2: the rule FilterRequest applies is the matching cached rule of highest
\* priority, the lowest id among equal priorities; with no matching cached rule
\* the result is Pass.
C2_FilterPrecedence ==
    \A q \in FilterCalls :
        filter[q].pc = "done" =>
            IF MatchingRules(q) = {} THEN filter[q].result = Pass
            ELSE /\ filter[q].result.Filtered
                 /\ \E f \in MatchingRules(q) :
                       /\ f.id = filter[q].result.RuleId
                       /\ \A g \in MatchingRules(q) :
                             \/ g.priority < f.priority
                             \/ (g.priority = f.priority /\ g.id >= f.id)

\* C2 witness: a request matched two cached rules and the one of higher priority
\* was applied although the other has the lower id.
C2_Witness ==
    \E q \in FilterCalls :
        /\ filter[q].pc = "done"
        /\ filter[q].result.Filtered
        /\ \E g \in MatchingRules(q) : g.id < filter[q].result.RuleId

\* C8 (as claimed): right after any completed refresh of the routing cache every
\* backend's selected count is 0.
C8_CountersResetOnRefresh ==
    [][\A r \in Refreshers : RefreshSwap(r) => \A u \in Urls : backendCountMap'[u] = 0]_vars

\* C9 (as claimed): a routing refresh in which a store operation failed leaves the
\* live cache exactly as it was.
C9_FailedRefreshKeepsCache ==
    [][\A r \in Refreshers :
          (RefreshSwap(r) /\ refresh[r].failed) => dnsRuleCache' = dnsRuleCache]_vars

\* C10 (as claimed): a routing refresh made while the store is unchanged since the
\* live cache was built leaves the cache content identical.
C10_RefreshIdempotent ==
    [][\A r \in Refreshers :
          (RefreshSwap(r) /\ cacheClean /\ refresh[r].clean) => dnsRuleCache' = dnsRuleCache]_vars

\* C4 (as claimed): with the static candidates u1 (weight 1) and u2 (weight 3) and
\* counters starting at zero, 4,000 sequential selections pick u1 1,000 +/- 50
\* times and u2 3,000 +/- 50 times.
C4_WeightedFairness ==
    LET bs == dnsRuleCache[HostA]
    IN (/\ Len(bs) = 2
        /\ bs[1].weight = 1
        /\ bs[2].weight = 3
        /\ SumOver(backendCountMap, Urls) = 4000)
       => /\ backendCountMap[bs[1].url] \in 950..1050
          /\ backendCountMap[bs[2].url] \in 2950..3050

\* C3: for a host with an enabled (quota, period) config whose limits stay as
\* they are, and any client IP, at most quota requests of that IP to that host
\* are passed within the interval of length period that begins at a window
\* reset, whatever requests, cleanup sweeps and config refreshes occur.
C3_QuotaPerWindow ==
    \A w \in windows : w.stable => w.passed <= w.quota

\* The number of copies of entry e in the buffer, in the batches being written
\* and in the table.
InBuffer(e) == Cardinality({i \in 1..Len(logBuffer) : logBuffer[i].entry = e})
InFlight(e) ==
    Cardinality({p \in UNION {{<<w, i>> : i \in 1..Len(w.entries)} : w \in writes} :
                    p[1].entries[p[2]].entry = e})
Persisted(e) == Cardinality({row \in request_logs : row.entry = e})

Quiescent == logBuffer = <<>> /\ asyncPending = 0 /\ writes = {}

\* C5: with a store that does not fail and a process that runs on, under any
\* interleaving of LogRequest calls, size-triggered asynchronous flushes and
\* timer flushes, every submitted entry is in exactly one place (the buffer,
\* one batch being written, or one persisted row), and once the logger is
\* quiescent the number of persisted rows equals the number of LogRequest calls.
C5_PersistedExactlyOnce ==
    /\ \A e \in 1..submitted : InBuffer(e) + InFlight(e) + Persisted(e) = 1
    /\ Quiescent => Cardinality(request_logs) = submitted

\* Every call is made, a size-triggered flush and a timer flush each wrote a
\* batch, and everything is persisted.
C5_Witness ==
    /\ submitted = MaxSubmits
    /\ Quiescent
    /\ {"async", "timer"} \subseteq flushKinds
    /\ \A e \in 1..submitted : Persisted(e) = 1

\* C6: after a graceful shutdown every entry submitted before the signal is
\* persisted, the batch of an asynchronous size-triggered flush included.
C6_ShutdownPersistsAll ==
    mainPc = "exited" => \A e \in 1..signalAt : Persisted(e) >= 1

\* The rows of hostname the last sweep found in the table.
SweptRowsOf(hostname) == {row \in lastSweep.before : row.hostname = hostname}

C11_FilterBeforeRouting ==
    [][\A p \in Handlers, h \in Hostnames \cup {UnknownHost} :
          ProxyLookup(p, h) => Decide(filterRuleCache, ArrivingRequest(h)) = Pass]_vars

\* C12: every request is evaluated by the rate limiter for its client and host
\* before a backend is selected; there are never more backend selections than
\* evaluations of the rate limiter.
C12_LimiterBeforeSelection ==
    SumOver(backendCountMap, Urls) <= rlCalls

\* The backend, status and success flag of the request-log entries a handler
\* submitted.
LogOutcomes(p) ==
    [i \in DOMAIN proxy[p].logs |->
        <<proxy[p].logs[i].backendID, proxy[p].logs[i].statusCode, proxy[p].logs[i].isSuccess>>]

\* C13: a request whose host has no backends in the routing cache is answered
\* 410, no backend is selected, and exactly one request-log entry with
\* backend_id = 0 and is_success = false is emitted.
C13_GoneLogged ==
    \A p \in Handlers :
        proxy[p].pc = "gone" =>
            /\ proxy[p].status = 410
            /\ proxy[p].selections = 0
            /\ LogOutcomes(p) = << <<0, 410, FALSE>> >>

\* C14: when forwarding fails with a transport error the client gets 502,
\* exactly one request-log entry with status 502 and is_success = false is
\* emitted for the selected backend, and exactly one selection was made for the
\* request (no retry on another backend).
C14_TransportError ==
    \A p \in Handlers :
        proxy[p].upstream = "error" =>
            /\ proxy[p].status = 502
            /\ LogOutcomes(p) = << <<proxy[p].selected, 502, FALSE>> >>
            /\ proxy[p].selections = 1

C14_Witness ==
    \E p \in Handlers :
        /\ proxy[p].pc = "served"
        /\ proxy[p].upstream = "error"
        /\ Len(proxy[p].backends) > 1

C17_QuotaBoundary ==
    rlLast.called /\ rlLast.enabled =>
        /\ rlLast.count >= 1
        /\ rlLast.passed <=> rlLast.count <= rlLast.quota
        /\ rlLast.passed <=> rlLast.status # 429

C17_Witness ==
    /\ rlLast.called /\ rlLast.enabled
    /\ rlLast.quota > 1
    /\ rlLast.count = rlLast.quota + 1
    /\ ~rlLast.passed

\* C18: a request to an existing counter that arrives more than the period
\* after the start of the counter's window sets the counter back to 1, starts a
\* window now and is passed, whatever the client sent in between.
C18_ResetOnWindowStart ==
    rlLast.called /\ rlLast.enabled /\ rlLast.had /\ rlLast.elapsed > rlLast.period =>
        rlLast.reset /\ rlLast.passed /\ rlLast.count = 1


\* C19: every host entry of the routing cache is a non-empty list that holds
\* only backends read as active from the store; while the store is as it was
\* when the cache was built, the cached backends are active rows of the store
\* and a host rule whose backends are all inactive has no entry; a lookup that
\* finds no entry is answered 410.
C19_CacheHoldsActiveOnly ==
    /\ \A h \in DOMAIN dnsRuleCache :
          /\ Len(dnsRuleCache[h]) > 0
          /\ \A b \in Range(dnsRuleCache[h]) : b.isActive
    /\ cacheClean =>
          /\ \A h \in DOMAIN dnsRuleCache : \A b \in Range(dnsRuleCache[h]) :
                \E x \in backends : x.id = b.id /\ x.isActive
          /\ \A d \in dns_rules :
                (\A x \in Range(QueryBackendsOf(d.id)) : ~x.isActive) =>
                    d.hostname \notin DOMAIN dnsRuleCache
    /\ \A p \in Handlers :
          proxy[p].pc # "idle" /\ ~proxy[p].found =>
              proxy[p].pc = "gone" /\ proxy[p].status = 410

C19_Witness ==
    /\ cacheClean
    /\ \E x \in backends : ~x.isActive /\ <<2, x.id>> \in dns_backend_map
    /\ HostB \notin DOMAIN dnsRuleCache
    /\ HostA \in DOMAIN dnsRuleCache
    /\ Len(dnsRuleCache[HostA]) < Len(QueryBackendsOf(1))
    /\ \E p \in Handlers : proxy[p].pc = "gone" /\ proxy[p].host = HostB

\* C20: a backend that an admin call deactivated or deleted is not selected by
\* a request that starts after the call returned.  As an action property: the
\* backend that selectBackend returns for a request, when the request is looked
\* up and balanced in one go, is an active row of the store as the admin calls
\* made so far left it.
C20_MutationVisibleOnReturn ==
    [][\A p \in Handlers, h \in Hostnames :
          ProxyLookup(p, h) /\ proxy'[p].pc = "looked" =>
              LET bs == proxy'[p].backends
                  sel == bs[selectBackend(bs, backendCountMap)]
              IN  \E x \in backends : x.id = sel.id /\ x.isActive]_vars


\* C21: while the store handle is closed every operation of the data plane that
\* touches the store reports an error and the process keeps serving; no such
\* operation ends the process.
C21_ClosedHandleRecoverable ==
    mainPc # "panicked"

\* C22: the client IP the filter matches against, and the client_ip of the
\* request-log entries, is the first X-Forwarded-For entry if the header is
\* there, else X-Real-IP if it is there, else the peer address without its port.
C22_ClientIP ==
    /\ \A q \in FilterCalls :
          filter[q].pc = "done" /\ filter[q].result # Pass =>
              matchesRule(filter[q].rules[filter[q].idx], getClientIP(filter[q].req),
                          filter[q].req.host, filter[q].req.path)
    /\ \A p \in Handlers : \A i \in DOMAIN proxy[p].logs :
          proxy[p].logs[i].clientIP = getClientIP(proxy[p].req)

\* The pattern table of the filter engine, stated on characters.
Occurs(c, V) == \E i \in 1..Len(V) : V[i] = c
Begins(S, X) == Len(X) <= Len(S) /\ \A i \in 1..Len(X) : S[i] = X[i]
Ends(S, X) == Len(X) <= Len(S) /\ \A i \in 1..Len(X) : S[Len(S) - Len(X) + i] = X[i]
Holds(S, X) == \E k \in 0..(Len(S) - Len(X)) : \A i \in 1..Len(X) : S[k + i] = X[i]
\* Bit k (1 = highest) of the 32-bit address.
AddrBit(ip, k) == (ip[((k - 1) \div 8) + 1] \div Pow2(7 - ((k - 1) % 8))) % 2
InBlock(V, S) ==
    /\ ParseCIDR(V).ok
    /\ ParseIP(S) # NilIP
    /\ \A k \in 1..ParseCIDR(V).bits : AddrBit(ParseIP(S), k) = AddrBit(ParseCIDR(V).ip, k)

\* The match values the table gives a verdict for: all but those with a star
\* that has text on both sides of it.
InTable(kind, V) ==
    \/ kind = "ip" /\ Occurs("/", V)
    \/ ~Occurs("*", V)
    \/ V[1] = "*"
    \/ V[Len(V)] = "*"

TableVerdict(kind, V, S) ==
    IF kind = "ip" /\ Occurs("/", V) THEN InBlock(V, S)
    ELSE IF Occurs("*", V)
         THEN IF V = <<"*">> THEN TRUE
              ELSE IF V[1] = "*" /\ V[Len(V)] = "*"
                   THEN Holds(S, [i \in 1..(Len(V) - 2) |-> V[i + 1]])
              ELSE IF V[1] = "*" THEN Ends(S, Tail(V))
              ELSE Begins(S, [i \in 1..(Len(V) - 1) |-> V[i]])
    ELSE IF kind = "path" /\ V # <<>> /\ V[Len(V)] = "/" THEN Begins(S, V)
    ELSE Holds(S, V)

\* The subject a rule of the given kind is matched against.
SubjectOf(kind, req) ==
    CASE kind = "ip" -> getClientIP(req)
      [] kind = "path" -> req.path
      [] kind = "dns" -> req.host

TableStatus(rule) ==
    CASE rule.action_type = "redirect" -> 302
      [] rule.action_type = "bad_request" -> 400
      [] rule.action_type = "too_many" -> 429
      [] rule.action_type = "custom" -> IF rule.status_code > 0 THEN rule.status_code ELSE 403
TableBody(rule) ==
    IF rule.action_value # "" THEN rule.action_value
    ELSE CASE rule.action_type = "bad_request" -> "Bad Request"
           [] rule.action_type = "too_many" -> "Too Many Requests"
           [] rule.action_type = "custom" -> "Request Blocked"

AnswersByTable ==
    \A q \in FilterCalls :
        filter[q].pc = "done" /\ filter[q].result.Filtered =>
            LET rule == filter[q].rules[filter[q].idx]
                res == filter[q].result
            IN /\ res.StatusCode = TableStatus(rule)
               /\ rule.action_type = "redirect" => res.RedirectURL = rule.action_value
               /\ rule.action_type # "redirect" => res.Response = TableBody(rule)

\* The answer of the rule of the given id in the store s.
StoredAnswer(s, id) == FilteredBy(CHOOSE f \in s : f.id = id)

\* C24: a matched rule answers by the response table (redirect 302 with the
\* action value as URL, bad_request 400, too_many 429, custom the rule's status
\* code when > 0 and 403 otherwise, each with the action value or its default
\* text as body), and a custom rule created by the admin without a status code
\* answers 403.
C24_ResponseTable ==
    /\ []AnswersByTable
    /\ [][\A b \in ActionBodies :
            /\ CreateFilterRule(b, MaxPriority, TRUE)
            /\ b.action_type = "custom"
            /\ b.status_code = 0
            => StoredAnswer(filter_rules', nextFilterId).StatusCode = 403]_vars

\* C25: routing refreshes are serialized: a refresh never replaces a live cache
\* that is the snapshot of the current store by a snapshot built from an older
\* state of the store, so that once the refreshes around an admin mutation
\* have completed the live cache is the snapshot of the latest store state.
C25_RefreshesSerialized ==
    [][\A r \in RaceRefreshers :
          RefreshSwap(r) /\ dnsRuleCache = BuildFrom(QueryDNSRules, EmptyCache)
              => dnsRuleCache' = BuildFrom(QueryDNSRules, EmptyCache)]_vars

\* Candidate a has a greater priority than candidate b, where the priority of
\* a candidate is weight / m - counts[url] and m > 0.
Outranks(a, b, counts, m) == a.weight - b.weight > (counts[a.url] - counts[b.url]) * m

\* C26: selectBackend picks the candidate of greatest priority = weight /
\* min(weight) - selected count, the earliest in the list among those of equal
\* priority, and increments the counter of the one it picks and no other; a
\* list of one candidate gives that candidate and increments its counter.
C26_SelectionRule ==
    [][\A h \in Hostnames :
          SelectUpTo(h, MaxPicks) =>
              LET bs == dnsRuleCache[h]
                  m == CHOOSE w \in {bs[i].weight : i \in 1..Len(bs)} :
                          \A i \in 1..Len(bs) : w <= bs[i].weight
              IN \E k \in 1..Len(bs) :
                    /\ backendCountMap' = [backendCountMap EXCEPT ![bs[k].url] = @ + 1]
                    /\ \A j \in 1..Len(bs) : ~Outranks(bs[j], bs[k], backendCountMap, m)
                    /\ \A j \in 1..(k - 1) : Outranks(bs[k], bs[j], backendCountMap, m)]_vars

C26_Witness ==
    /\ Len(dnsRuleCache[HostA]) = 2
    /\ Len(dnsRuleCache[HostB]) = 1
    /\ dnsRuleCache[HostA][1].weight = dnsRuleCache[HostA][2].weight
    /\ backendCountMap[dnsRuleCache[HostA][1].url] = 3
    /\ backendCountMap[dnsRuleCache[HostA][2].url] = 1

\* Entry e was submitted and is nowhere any more: its batch was given up.
Dropped(e) == e <= submitted /\ InBuffer(e) + InFlight(e) + Persisted(e) = 0

\* The batch w is given up in this step.
GivenUp(w) ==
    /\ w \in writes
    /\ \A v \in writes' : v.entries # w.entries
    /\ request_logs' = request_logs

\* C27: a batch whose insert fails is attempted at most 3 times, after a pause
\* of 100 ms before the 2nd and of 200 ms before the 3rd attempt; a successful
\* attempt ends the attempts; the batch is given up at its 3rd failure and not
\* before, its entries are then neither put back in the buffer nor persisted
\* later, and no entry is ever persisted more than once.
C27_RetryThenDrop ==
    /\ [](\A w \in writes :
            \/ w.attempt = 0 /\ w.delay = 0
            \/ w.attempt = 1 /\ w.delay = 100
            \/ w.attempt = 2 /\ w.delay = 200)
    /\ [](\A e \in 1..submitted : InBuffer(e) + InFlight(e) + Persisted(e) <= 1)
    /\ [][\A w \in writes : GivenUp(w) => w.attempt = 2]_vars
    /\ [][\A w \in writes :
            request_logs' # request_logs /\ w \notin writes' =>
                \A v \in writes' : v.entries # w.entries]_vars
    /\ [][\A e \in 1..MaxSubmits : Dropped(e) => Dropped(e)']_vars

\* A batch was written at its third attempt and another was given up.
C27_Witness ==
    /\ \E e \in 1..submitted : Dropped(e)
    /\ \E e \in 1..submitted : Persisted(e) = 1
    /\ \E w \in writes : w.attempt = 2

\* C28: a log batch is persisted all-or-nothing: an attempt that fails at an
\* insert or at the commit leaves none of the batch's entries in the store,
\* and a successful attempt leaves all of them.
C28_BatchAllOrNothing ==
    /\ [](\A w \in writes : \A i \in 1..Len(w.entries) : Persisted(w.entries[i].entry) = 0)
    /\ [][\A w \in writes :
            batchInsert(w) =>
                \/ \A i \in 1..Len(w.entries) : Persisted(w.entries[i].entry)' = 0
                \/ /\ \A i \in 1..Len(w.entries) : Persisted(w.entries[i].entry)' = 1
                   /\ \A v \in writes' : v.entries # w.entries]_vars

\* A batch of two entries failed once and was then persisted.
C28_Witness ==
    /\ submitted >= 2
    /\ Persisted(1) = 1
    /\ Persisted(2) = 1
    /\ \E w \in writes : w.attempt > 0

\* C29: while the logger runs, every entry appended to the buffer is eventually
\* taken out of it by a flush, whether or not the buffer ever reaches the batch
\* size.
C29_BufferedEventuallyFlushed ==
    \A e \in 1..MaxSubmits : (InBuffer(e) = 1) ~> (InBuffer(e) = 0)

\* One entry only was logged, below the batch size, and a timer flush wrote it.
C29_Witness ==
    /\ submitted = 1
    /\ batchSize > 1
    /\ asyncPending = 0
    /\ Persisted(1) = 1
    /\ flushKinds = {"timer"}

\* C30: on the shutdown signal the process first stops accepting requests,
\* then signals every background loop so that each terminates, then flushes
\* the log sink, and only then closes the store: no request is accepted once
\* the signal is handled, no background loop runs once the store is closed,
\* and the store is closed after the final flush of the log sink.
C30_ShutdownOrder ==
    /\ [][(\E p \in Handlers : ProxyLookup(p, UnknownHost)) => mainPc = "running"]_vars
    /\ [][(loadDNSConfigs \/ cleanup
             \/ \E op \in UncheckedStoreOps, sees \in HandleReads : QueryOnClosedHandle(op, sees))
          => mainPc \notin {"closed", "exited", "panicked"}]_vars
    /\ [][dbOpen /\ ~dbOpen' => loopPc = "done"]_vars

-----------------------------------------------------------------------------
(* The health checker beside the admin surface *)

\* The one goroutine of InitHealthChecker sweeping while rules are switched to
\* and from health checking and backends are activated, deactivated and deleted.
NextHealth ==
    \/ \E failed \in BOOLEAN : HealthQuery(failed)
    \/ HealthEvict
    \/ \E id \in 1..2, u \in Urls, isHealthy \in BOOLEAN : checkBackendHealth(<<id, u>>, isHealthy)
    \/ HealthWait
    \/ \E id \in 1..2, health \in BOOLEAN : UpdateLimits(id, FALSE, 0, 0, 0, health)
    \/ \E id \in BackendIds, a \in BOOLEAN : UpdateBackend(id, 0, a)
    \/ \E id \in BackendIds : DeleteBackend(id)

SpecHealth == InitRouting /\ [][NextHealth]_vars

\* The URLs the store of the sweep's query asks to probe.
ProbedSet ==
    {b.url : b \in {x \in hsweep.backends :
                        /\ x.isActive
                        /\ \E r \in hsweep.rules :
                              r.health_check_enabled /\ <<r.id, x.id>> \in hsweep.map}}

-----------------------------------------------------------------------------
(* The rate limiter at the granularity of its locks *)

\* What a step of the limiter's goroutines leaves alone beside the limiter.
syncFrame == <<storeVars, routingVars, filterVars, clockVars, loggerVars, logStoreVars,
               lastSweep, healthStatus, hsweep, solo>>

\* RWMutex.RLock gets in unless a writer holds the lock or waits for it.
CanRLock == rlsync.cfgWriter = 0 /\ rlsync.cfgPending = {}

\* The return path the locked part of the middleware takes.
PathOf(ipm, cfgs, ip, hostname, t) ==
    LET enabled == hostname \in DOMAIN cfgs /\ cfgs[hostname].Enabled
        maxRequests == IF enabled THEN cfgs[hostname].Quota ELSE defaultMaxRequests
        interval == IF enabled THEN cfgs[hostname].PeriodSecs ELSE defaultIntervalSecs
    IN  IF ip \notin DOMAIN ipm THEN "newip"
        ELSE IF hostname \notin DOMAIN ipm[ip].hostCounts THEN "newhost"
        ELSE IF ResetDue(t, ipm[ip].hostCounts[hostname].lastSeen, interval) THEN "reset"
        ELSE IF LimitExceeded(ipm[ip].hostCounts[hostname].count + 1, maxRequests)
             THEN "exceeded"
        ELSE "counted"

\* Mutant of UnlocksOnPath: the rejecting path returns with the lock held.
UnlocksOnPathButReject(path) == IF path = "exceeded" THEN 0 ELSE 1
\* The calls of rl.ipMapLock.Unlock() on a return path of the locked part
\* (lines 572, 588, 596, 606 and 612).
UnlocksOnPath(path) == 1

\* A request of ip for hostname and path enters the middleware: the admin
\* bypass returns at once.
LimiterArrive(h, ip, hostname, path) ==
    /\ rlsync.pc[h] = "idle"
    /\ rlCalls < MaxCalls
    /\ rlCalls' = rlCalls + 1
    /\ rlsync' = [rlsync EXCEPT
          !.pc[h] = IF IsAdminPath(path) THEN "return" ELSE "rlock",
          !.req[h] = [ip |-> ip, hostname |-> hostname, cfgs |-> <<>>],
          !.unlocks[h] = 0]
    /\ rlLast' = NoCall
    /\ UNCHANGED <<dnsConfigMap, ipMap, windows, windowStart, syncFrame>>

\* rl.dnsConfigMapLock.RLock()
LimiterRLock(h) ==
    /\ rlsync.pc[h] = "rlock"
    /\ CanRLock
    /\ rlsync' = [rlsync EXCEPT !.pc[h] = "rheld", !.cfgReaders = @ \cup {h}]
    /\ rlLast' = NoCall
    /\ UNCHANGED <<dnsConfigMap, ipMap, rlCalls, windows, windowStart, syncFrame>>

\* The read of the host's config and RUnlock(); a disabled config returns.
LimiterRUnlock(h) ==
    LET hostname == rlsync.req[h].hostname
        cfgs == [x \in DOMAIN dnsConfigMap \cap {hostname} |-> dnsConfigMap[x]]
    IN  /\ rlsync.pc[h] = "rheld"
        /\ rlsync' = [rlsync EXCEPT
              !.pc[h] = IF SkipsLimiting(cfgs, hostname) THEN "return" ELSE "lock",
              !.req[h].cfgs = cfgs,
              !.cfgReaders = @ \ {h}]
        /\ rlLast' = NoCall
        /\ UNCHANGED <<dnsConfigMap, ipMap, rlCalls, windows, windowStart, syncFrame>>

\* rl.ipMapLock.Lock()
LimiterLock(h) ==
    /\ rlsync.pc[h] = "lock"
    /\ rlsync.ipMapLock = 0
    /\ rlsync' = [rlsync EXCEPT !.pc[h] = "held", !.ipMapLock = h]
    /\ rlLast' = NoCall
    /\ UNCHANGED <<dnsConfigMap, ipMap, rlCalls, windows, windowStart, syncFrame>>

\* The locked part, lines 555-613, with the Unlock of its return path.
LimiterBody(h) ==
    LET r == rlsync.req[h]
        out == Limited(ipMap, r.cfgs, r.ip, r.hostname, now)
        n == UnlocksOnPath(PathOf(ipMap, r.cfgs, r.ip, r.hostname, now))
    IN  /\ rlsync.pc[h] = "held"
        /\ ipMap' = out.ipMap
        /\ windows' = WindowsAfter(windows, r.cfgs, r.ip, r.hostname, now, out)
        /\ windowStart' = StartsAfter(windowStart, r.ip, r.hostname, now, out)
        /\ rlLast' = CallRecord(ipMap, r.cfgs, windowStart, r.ip, r.hostname, now, out)
        /\ rlsync' = [rlsync EXCEPT !.pc[h] = "return",
                                    !.unlocks[h] = n,
                                    !.ipMapLock = IF n > 0 THEN 0 ELSE h]
        /\ UNCHANGED <<dnsConfigMap, rlCalls, syncFrame>>

\* The handler returns: the request is decided.
LimiterReturn(h) ==
    /\ rlsync.pc[h] = "return"
    /\ rlsync' = [rlsync EXCEPT !.pc[h] = "idle"]
    /\ rlLast' = NoCall
    /\ UNCHANGED <<dnsConfigMap, ipMap, rlCalls, windows, windowStart, syncFrame>>

\* The ticker of cleanup fires.
CleanupTick ==
    /\ mainPc \notin Ended
    /\ rlsync.pc[CleanupThread] = "idle"
    /\ rlsync' = [rlsync EXCEPT !.pc[CleanupThread] = "lock"]
    /\ rlLast' = NoCall
    /\ UNCHANGED <<dnsConfigMap, ipMap, rlCalls, windows, windowStart, syncFrame>>

\* rl.ipMapLock.Lock() of cleanup, and the IP entries the outer loop deletes;
\* the per-host counters of the other entries are still to visit.
CleanupLock ==
    /\ rlsync.pc[CleanupThread] = "lock"
    /\ rlsync.ipMapLock = 0
    /\ ipMap' = [ip \in {x \in DOMAIN ipMap :
                            ~(now - ipMap[x].lastSeen > 3 * defaultIntervalSecs)} |-> ipMap[ip]]
    /\ windowStart' = [k \in CountersOf(ipMap') |-> windowStart[k]]
    /\ rlsync' = [rlsync EXCEPT !.pc[CleanupThread] = "sweep",
                                !.ipMapLock = CleanupThread,
                                !.todo = CountersOf(ipMap')]
    /\ rlLast' = NoCall
    /\ UNCHANGED <<dnsConfigMap, rlCalls, windows, syncFrame>>

\* rl.dnsConfigMapLock.RLock() in the inner loop, with ipMapLock held.
CleanupRLock ==
    /\ rlsync.pc[CleanupThread] = "sweep"
    /\ rlsync.todo # {}
    /\ CanRLock
    /\ rlsync' = [rlsync EXCEPT !.pc[CleanupThread] = "rheld",
                                !.cfgReaders = @ \cup {CleanupThread}]
    /\ rlLast' = NoCall
    /\ UNCHANGED <<dnsConfigMap, ipMap, rlCalls, windows, windowStart, syncFrame>>

\* The read of the interval of counter k, RUnlock() and the deletion test.
CleanupRUnlock(k) ==
    /\ rlsync.pc[CleanupThread] = "rheld"
    /\ k \in rlsync.todo
    /\ LET hc == ipMap[k[1]].hostCounts
           stale == now - hc[k[2]].lastSeen > 3 * CleanupInterval(dnsConfigMap, k[2])
       IN  ipMap' = IF stale
                    THEN [ipMap EXCEPT ![k[1]].hostCounts =
                                [x \in DOMAIN hc \ {k[2]} |-> hc[x]]]
                    ELSE ipMap
    /\ windowStart' = [x \in CountersOf(ipMap') |-> windowStart[x]]
    /\ rlsync' = [rlsync EXCEPT !.pc[CleanupThread] = "sweep",
                                !.cfgReaders = @ \ {CleanupThread},
                                !.todo = @ \ {k}]
    /\ rlLast' = NoCall
    /\ UNCHANGED <<dnsConfigMap, rlCalls, windows, syncFrame>>

\* rl.ipMapLock.Unlock() at the end of the pass.
CleanupUnlock ==
    /\ rlsync.pc[CleanupThread] = "sweep"
    /\ rlsync.todo = {}
    /\ rlsync' = [rlsync EXCEPT !.pc[CleanupThread] = "idle", !.ipMapLock = 0]
    /\ rlLast' = NoCall
    /\ UNCHANGED <<dnsConfigMap, ipMap, rlCalls, windows, windowStart, syncFrame>>

\* loadDNSConfigs of caller l up to the lock: the query and newConfigs, with no
\* lock held; an error of the query returns.
LoaderQuery(l, failed) ==
    /\ mainPc \notin Ended
    /\ dbOpen
    /\ rlsync.pc[l] = "idle"
    /\ failed => storeFaults
    /\ rlsync' = IF failed THEN rlsync
                 ELSE [rlsync EXCEPT !.pc[l] = "lock", !.loaded[l] = newConfigs(dns_rules, now)]
    /\ rlLast' = NoCall
    /\ UNCHANGED <<dnsConfigMap, ipMap, rlCalls, windows, windowStart, syncFrame>>

\* rl.dnsConfigMapLock.Lock(), first half: the writer announces itself once
\* no other writer is in; readers that come later wait.
LoaderAnnounce(l) ==
    /\ rlsync.pc[l] = "lock"
    /\ rlsync.cfgWriter = 0
    /\ rlsync.cfgPending = {}
    /\ rlsync' = [rlsync EXCEPT !.pc[l] = "wait", !.cfgPending = {l}]
    /\ rlLast' = NoCall
    /\ UNCHANGED <<dnsConfigMap, ipMap, rlCalls, windows, windowStart, syncFrame>>

\* Lock(), second half: the readers that were in have left.
LoaderAcquire(l) ==
    /\ rlsync.pc[l] = "wait"
    /\ rlsync.cfgReaders = {}
    /\ rlsync' = [rlsync EXCEPT !.pc[l] = "held", !.cfgPending = {}, !.cfgWriter = l]
    /\ rlLast' = NoCall
    /\ UNCHANGED <<dnsConfigMap, ipMap, rlCalls, windows, windowStart, syncFrame>>

\* rl.dnsConfigMap = newConfigs and Unlock().
LoaderSwap(l) ==
    /\ rlsync.pc[l] = "held"
    /\ dnsConfigMap' = rlsync.loaded[l]
    /\ windows' = WindowsAfterLoad(windows, dnsConfigMap, dnsConfigMap')
    /\ rlsync' = [rlsync EXCEPT !.pc[l] = "idle", !.cfgWriter = 0, !.loaded[l] = <<>>]
    /\ rlLast' = NoCall
    /\ UNCHANGED <<ipMap, rlCalls, windowStart, syncFrame>>

StepsOfCall(h) ==
    \/ LimiterRLock(h)
    \/ LimiterRUnlock(h)
    \/ LimiterLock(h)
    \/ LimiterBody(h)
    \/ LimiterReturn(h)

StepsOfCleanup ==
    \/ CleanupLock
    \/ CleanupRLock
    \/ \E k \in ClientIPs \X (Hostnames \cup {UnknownHost}) : CleanupRUnlock(k)
    \/ CleanupUnlock

StepsOfLoader(l) ==
    \/ LoaderAnnounce(l)
    \/ LoaderAcquire(l)
    \/ LoaderSwap(l)

NextLocks ==
    \/ \E h \in LimiterCalls, ip \in ClientIPs, hostname \in Hostnames,
          path \in {RootPath, AdminPath} : LimiterArrive(h, ip, hostname, path)
    \/ \E h \in LimiterCalls : StepsOfCall(h)
    \/ CleanupTick
    \/ StepsOfCleanup
    \/ \E l \in LoaderThreads, failed \in BOOLEAN : LoaderQuery(l, failed)
    \/ \E l \in LoaderThreads : StepsOfLoader(l)

\* sync.Mutex and sync.RWMutex hand a lock to a goroutine that keeps waiting
\* for it (starvation mode), and the scheduler runs every runnable goroutine:
\* a step of a goroutine that is possible again and again is taken.
SpecLocks ==
    /\ InitRL
    /\ [][NextLocks]_vars
    /\ \A h \in LimiterCalls : SF_vars(StepsOfCall(h))
    /\ SF_vars(StepsOfCleanup)
    /\ \A l \in LoaderThreads : SF_vars(StepsOfLoader(l))

\* A goroutine holds or has asked for dnsConfigMapLock.
InConfigLock(t) ==
    t \in rlsync.cfgReaders \/ rlsync.cfgWriter = t \/ t \in rlsync.cfgPending

\* The locks are taken in one order: ipMapLock is never asked for by a
\* goroutine that is in dnsConfigMapLock.
LockOrder ==
    \A t \in LimiterThreads :
        InConfigLock(t) => (rlsync.pc[t] # "lock" \/ t \in LoaderThreads)

\* A call that is not in its locked part does not hold ipMapLock, and one that
\* has left it unlocked once.
ReleasedOnce ==
    \A h \in LimiterCalls :
        /\ rlsync.pc[h] # "held" => rlsync.ipMapLock # h
        /\ (rlsync.pc[h] = "return" /\ rlsync.req[h].cfgs # <<>>
                /\ ~SkipsLimiting(rlsync.req[h].cfgs, rlsync.req[h].hostname))
              => rlsync.unlocks[h] = 1

\* C34: the request path, the cleanup and the config refresh of the limiter
\* never deadlock: the two locks are taken in one order, every return path of
\* the handler has released ipMapLock exactly once, and every goroutine that
\* entered (a pending request above all) gets to its end.
C34_LimiterLocks ==
    /\ [](LockOrder /\ ReleasedOnce)
    /\ \A t \in LimiterThreads : (rlsync.pc[t] # "idle") ~> (rlsync.pc[t] = "idle")

\* A request waits for ipMapLock, which cleanup holds while it waits to read
\* the configs behind a loader that has asked for the write lock, which waits
\* for the other request to finish its read.
C34_Witness ==
    /\ \E h \in LimiterCalls : rlsync.pc[h] = "lock"
    /\ rlsync.ipMapLock = CleanupThread
    /\ rlsync.pc[CleanupThread] = "sweep"
    /\ rlsync.todo # {}
    /\ rlsync.cfgPending # {}
    /\ rlsync.cfgReaders # {}

-----------------------------------------------------------------------------
(* The cleanup sweep of the rate limiter *)

\* The period the limiter applies to a host: the configured one of an enabled
\* config, the default one otherwise.
PeriodOf(hostname) ==
    IF hostname \in DOMAIN dnsConfigMap /\ dnsConfigMap[hostname].Enabled
    THEN dnsConfigMap[hostname].PeriodSecs
    ELSE defaultIntervalSecs

StaleIp(ip) == now - ipMap[ip].lastSeen > 3 * defaultIntervalSecs
StaleCounter(ip, hostname) ==
    now - ipMap[ip].hostCounts[hostname].lastSeen > 3 * PeriodOf(hostname)

\* C32: a cleanup sweep evicts exactly the IP entries last seen more than 3
\* default periods ago and, in the entries it keeps, exactly the per-host
\* counters last seen more than 3 periods of their host ago; everything else
\* is unchanged, and no per-host counter is discarded before 3 periods of its
\* host have passed.
C32_CleanupFrame ==
    [][cleanup =>
        /\ DOMAIN ipMap' = {ip \in DOMAIN ipMap : ~StaleIp(ip)}
        /\ \A ip \in DOMAIN ipMap' :
              /\ DOMAIN ipMap'[ip].hostCounts =
                    {h \in DOMAIN ipMap[ip].hostCounts : ~StaleCounter(ip, h)}
              /\ ipMap'[ip].count = ipMap[ip].count
              /\ ipMap'[ip].lastSeen = ipMap[ip].lastSeen
              /\ \A h \in DOMAIN ipMap'[ip].hostCounts :
                    ipMap'[ip].hostCounts[h] = ipMap[ip].hostCounts[h]
        /\ \A ip \in DOMAIN ipMap : \A h \in DOMAIN ipMap[ip].hostCounts :
              ~StaleCounter(ip, h) =>
                  /\ ip \in DOMAIN ipMap'
                  /\ h \in DOMAIN ipMap'[ip].hostCounts]_vars
-----------------------------------------------------------------------------
(* Concurrent selections *)

\* One proxyHandler call more than the routing specification runs at a time.
PickHandlers == 1..(NumHandlers + 1)
MaxRacePicks == 3     \* selections made by the concurrent requests

InitPickers == InitPickOf(PickHandlers)

\* Two requests at a time select among the backends of their hosts, while the
\* admin surface changes weights and the cache is refreshed.
NextPickers ==
    \/ \E p \in PickHandlers, h \in Hostnames : ProxyLookup(p, h)
    \/ \E p \in PickHandlers : ProxySelectUpTo(p, MaxRacePicks)
    \/ \E p \in PickHandlers : ProxyForward(p, [kind |-> "response", status |-> 200])
    \/ \E p \in PickHandlers : ProxyReturn(p)
    \/ \E id \in BackendIds, w \in 1..MaxWeight : UpdateBackend(id, w, TRUE)
    \/ \E r \in Refreshers : RefreshQuery(r)
    \/ \E r \in Refreshers : RefreshRule(r)
    \/ \E r \in Refreshers : RefreshSwap(r)

SpecPickers == InitPickers /\ [][NextPickers]_vars

\* C33: a selectBackend call on a non-empty list returns a backend of that
\* list and changes the counter map by adding exactly 1 to the counter of the
\* returned backend; no counter ever decreases, however the selections of
\* concurrent requests, refreshes and admin mutations interleave.
C33_SelectFrame ==
    [][/\ \A p \in PickHandlers :
            (proxy[p].pc = "looked" /\ proxy'[p].pc = "selected") =>
                \E i \in 1..Len(proxy[p].backends) :
                    /\ proxy'[p].selected = proxy[p].backends[i].id
                    /\ backendCountMap' =
                          [backendCountMap EXCEPT ![proxy[p].backends[i].url] = @ + 1]
       /\ \A u \in Urls : backendCountMap'[u] >= backendCountMap[u]]_vars

\* Two requests have selected at the same time, one of them a backend that is
\* not the first of its list.
C33_Witness ==
    /\ \A p \in PickHandlers : proxy[p].pc = "selected"
    /\ \E p \in PickHandlers :
          /\ Len(proxy[p].backends) > 1
          /\ proxy[p].selected # proxy[p].backends[1].id
-----------------------------------------------------------------------------
(* Isolation of the rate limiter's decisions *)

\* One client sends requests to a host with a long period and to a host
\* without config, cleanup passes in between.
NextSolo ==
    \/ \E ip \in ClientIPs, h \in {HostA, UnknownHost} : SoloRequest(ip, h)
    \/ SoloCleanup
    \/ Tick(TickSecs, MaxTime)

SpecSolo == InitBurst /\ [][NextSolo]_vars

\* C35: the decision for a request of client c for host h depends on the
\* config of h and on the requests of c for h only: it is the decision the
\* limiter takes when it has handled no other request, with the same cleanup
\* passes in between.
C35_Isolated == rlLast.called => (rlLast.passed <=> solo.passed)
-----------------------------------------------------------------------------
(* The age of the rows the retention sweeper leaves *)

\* The retention that applies to the rows of hostname under the rules of the
\* last sweep: that of the host's rule when it is set, the default otherwise.
ApplicableDays(hostname) ==
    LET own == {r \in lastSweep.rules : r.hostname = hostname /\ r.log_retention_days > 0}
    IN  IF own = {} THEN defaultRetentionDays
        ELSE (CHOOSE r \in own : TRUE).log_retention_days

\* C36: after a sweep at time T in which no store operation failed, no row is
\* left that is older than the retention that applies to it, the 30-day
\* default for the rows of a host without rule.
C36_EveryRowBounded ==
    (lastSweep.done /\ ~storeFaults) =>
        \A row \in lastSweep.after :
            row.timestamp >= lastSweep.at.sec - ApplicableDays(row.hostname) * DaySecs
-----------------------------------------------------------------------------
(* Host rule handlers specification *)

\* An element of target_backend_urls: backend n by its url.
Target(n) == [url |-> UrlOf(n), weight |-> 1, isActive |-> TRUE]

\* The bodies of the requests: one field only (the retention, the hostname,
\* the backend list), a backend list that names one url twice, a rule for a new
\* host with a new backend, and a body that carries every field.
RuleJsons ==
    {[log_retention_days |-> 7],
     [hostname |-> HostB],
     [target_backend_urls |-> <<Target(2)>>],
     [target_backend_urls |-> <<Target(1), Target(1)>>],
     [hostname |-> UnknownHost, target_backend_urls |-> <<Target(1), Target(1)>>],
     [hostname |-> UnknownHost, target_backend_urls |-> <<Target(NumBackends + 1)>>],
     [hostname |-> HostA, target_backend_urls |-> <<Target(1)>>, rate_limit_enabled |-> TRUE,
      rate_limit_quota |-> 1, rate_limit_period |-> LongPeriod, log_retention_days |-> 7,
      health_check_enabled |-> TRUE]}

\* The store holds host rule 1 (a.t) with a rate limit, a retention of its own
\* and health checks, mapped to every backend, and host rule 2 (b.t) mapped to
\* backend 1; the caches are loaded from it.
InitRules ==
    /\ dns_rules = {[HostRule(1, HostA) EXCEPT !.rate_limit_enabled = TRUE,
                                               !.rate_limit_quota = MaxQuota,
                                               !.rate_limit_period = LongPeriod,
                                               !.log_retention_days = 1,
                                               !.health_check_enabled = TRUE],
                    HostRule(2, HostB)}
    /\ backends = {[id |-> id, url |-> UrlOf(id), weight |-> 1, isActive |-> TRUE] : id \in BackendIds}
    /\ dns_backend_map = {<<1, id>> : id \in BackendIds} \cup {<<2, 1>>}
    /\ sqlite_sequence = SequenceOf(dns_rules, backends)
    /\ storeFaults \in BOOLEAN
    /\ dnsRuleCache = BuildFrom(QueryDNSRules, EmptyCache)
    /\ backendCountMap = ZeroCounts
    /\ refresh = [r \in Refreshers |-> IdleRefresh]
    /\ proxy = [p \in Handlers |-> IdleProxy]
    /\ committedRouting = dnsRuleCache
    /\ cacheClean = TRUE
    /\ adminOps = 0
    /\ InitFilter
    /\ InitServices

NextRules ==
    \/ \E json \in RuleJsons, fault \in TxFaults \cup {"none"} : CreateDNSRule(json, fault)
    \/ \E id \in 1..3, json \in RuleJsons, fault \in UpdateFaults \cup {"none"} :
            UpdateDNSRule(id, json, fault)
    \/ \E id \in 1..3, fault \in TxFaults \cup {"none"} : DeleteDNSRule(id, fault)

SpecRules == InitRules /\ [][NextRules]_vars

\* CreateDNSRule, UpdateDNSRule or DeleteDNSRule returns an error.
CreateFails(json, fault) ==
    /\ EndOf(CreateTx(Store, BodyParser(json)), fault) # "committed"
    /\ CreateDNSRule(json, fault)
UpdateFails(id, json, fault) ==
    /\ EndOf(UpdateTx(Store, id, BodyParser(json)), fault) # "committed"
    /\ UpdateDNSRule(id, json, fault)
DeleteFails(id, fault) ==
    /\ EndOf(DeleteTx(Store, id), fault) # "committed"
    /\ DeleteDNSRule(id, fault)
RuleHandlerFails ==
    \/ \E json \in RuleJsons, fault \in TxFaults \cup {"none"} : CreateFails(json, fault)
    \/ \E id \in 1..3, json \in RuleJsons, fault \in UpdateFaults \cup {"none"} :
            UpdateFails(id, json, fault)
    \/ \E id \in 1..3, fault \in TxFaults \cup {"none"} : DeleteFails(id, fault)

\* C37: a call of CreateDNSRule, UpdateDNSRule or DeleteDNSRule in which a step
\* fails leaves the host rules, the backends and the mappings of the store
\* exactly as they were, and refreshes neither the routing cache nor the rate
\* limit configs.
C37_AtomicOnFailure ==
    [][RuleHandlerFails =>
          UNCHANGED <<dns_rules, backends, dns_backend_map, dnsRuleCache, dnsConfigMap>>]_vars

\* The rule with the given id in a set of rules.
RuleOf(rules, id) == CHOOSE r \in rules : r.id = id

\* The limit and retention fields of a host rule.
LimitFields ==
    {"rate_limit_enabled", "rate_limit_quota", "rate_limit_period", "log_retention_days",
     "health_check_enabled"}

\* C39: an UpdateDNSRule that succeeds leaves every one of rate_limit_enabled,
\* rate_limit_quota, rate_limit_period, log_retention_days and
\* health_check_enabled that its body does not carry as it was, in the store
\* and in the refreshed rate limit config.
C39_OnlySupplied ==
    [][\A id \in 1..3, json \in RuleJsons :
          (UpdateDNSRule(id, json, "none") /\ ~UpdateFails(id, json, "none")) =>
              LET old == RuleOf(dns_rules, id)
                  new == RuleOf(dns_rules', id)
              IN  /\ \A f \in LimitFields \ DOMAIN json : new[f] = old[f]
                  /\ "rate_limit_enabled" \notin DOMAIN json =>
                        dnsConfigMap'[new.hostname].Enabled = dnsConfigMap[old.hostname].Enabled
                  /\ "rate_limit_quota" \notin DOMAIN json =>
                        dnsConfigMap'[new.hostname].Quota = dnsConfigMap[old.hostname].Quota
                  /\ "rate_limit_period" \notin DOMAIN json =>
                        dnsConfigMap'[new.hostname].PeriodSecs
                            = dnsConfigMap[old.hostname].PeriodSecs]_vars
-----------------------------------------------------------------------------
(* The caches after ResetDatabase *)

\* C38: when ResetDatabase has put the new store in place and returns
\* successfully, the routing table, the rate limit configs and the filter rule
\* list are those of the new store.
C38_CachesFollowStore ==
    [][ResetReopen(TRUE) =>
          /\ dnsRuleCache' = BuildFromIn([backends |-> backends',
                                          dns_backend_map |-> dns_backend_map'],
                                         QueryDNSRulesIn(dns_rules'), EmptyCache)
          /\ dnsConfigMap' = newConfigs(dns_rules', now')
          /\ filterRuleCache' = QueryActiveFilterRules']_vars
=============================================================================
